---- MODULE Spec2Model ----
(***************************************************************************)
(* Klaus: collections escalation engine (klaus_engine.py) and the bank     *)
(* transaction / invoice matcher (matching_engine.py).                     *)
(*                                                                         *)
(* Time is counted in whole days (datetime differences are only ever read  *)
(* through .days).  The engine's money is counted in whole dollars, the    *)
(* matcher's in cents; a matcher score s is kept as the integer 100 * s.   *)
(***************************************************************************)
EXTENDS Integers, Sequences, FiniteSets, TLC

VARIABLES
    now,                    \* datetime.now(), in days
    config,                 \* KlausEngine.config and the thresholds read from it
    communication_history,  \* KlausEngine.communication_history
    history_file,           \* klaus_communication_history.json
    pending_approvals,      \* KlausEngine._pending_approvals
    invoices,               \* argument of the latest analyze_overdue_invoices call
    analysis,               \* value returned by the latest analyze_overdue_invoices call
    fresh,                  \* no log_communication / clock change since that call
    repeated,               \* that call repeated the call before it: same invoices, history and clock
    inv_in,                 \* analyze_invoice on one invoice: the invoice
    inv_out,                \* analyze_invoice on one invoice: the latest returned analysis
    prior_level,            \* highest escalation_level returned by the runs before the latest one
    dec_in,                 \* what one analyze_invoice decision reads
    dec_out,                \* that decision
    msg_in,                 \* _generate_consolidated_message: arguments
    msg_out,                \* _generate_consolidated_message: returned message
    memory,                 \* ReconciliationEngine.memory, saved after every change
    match_in,               \* match_transactions_to_invoices: arguments of the latest call
    matches,                \* match_transactions_to_invoices: the list that call returned
    denied_calls,           \* the (description, invoice id) pairs deny_match was called with
    score_in,               \* one pairing of a transaction with an invoice
    score_out,              \* the scores and the confidence of that pairing
    engines,                \* the communication_history of each KlausEngine instance
    logged,                 \* every record log_communication was asked to write
    defect_out,             \* what analyze_overdue_invoices did with defective input
    memory_call,            \* the last deny_match or mark_transaction_accounted call
    learn_log,              \* the learn_association calls made, in order
    account_call,           \* auto_account_historical_transactions: the call and what it returned
    daily_limit,            \* VoiceCallQueue.daily_limit
    calls_today,            \* VoiceCallQueue.calls_today
    last_reset_date,        \* VoiceCallQueue.last_reset_date
    queue,                  \* VoiceCallQueue.queue
    queue_file,             \* klaus_call_queue.json
    today,                  \* datetime.now().date()
    last_run,               \* the latest process_queue call: whether it found a good time to call
    analyzed                \* the clock and the length of the history at the latest analysis run

engine_vars == <<now, config, communication_history, history_file, pending_approvals,
                 invoices, analysis, fresh, repeated>>
invoice_vars == <<inv_in, inv_out, prior_level, dec_in, dec_out>>
message_vars == <<msg_in, msg_out>>
matcher_vars == <<memory, match_in, matches, denied_calls>>
score_vars == <<score_in, score_out>>
writer_vars == <<engines, logged>>
voice_vars == <<daily_limit, calls_today, last_reset_date, queue, queue_file, today, last_run>>
late_vars == <<account_call, voice_vars, analyzed>>
case_vars == <<score_vars, writer_vars, defect_out, memory_call, learn_log, late_vars>>
vars == <<engine_vars, invoice_vars, message_vars, matcher_vars, case_vars>>

None == "None"

\* raw field values as they arrive: a number, an ISO date (in days), a text
\* that is neither, or a field the dict does not have
Number(n) == [number |-> n]
IsoDate(d) == [iso |-> d]
Text(s) == [text |-> s]
Missing == [missing |-> TRUE]
IsNumber(v) == "number" \in DOMAIN v
IsIsoDate(v) == "iso" \in DOMAIN v

\* ------------------------------------------------------------------ bounds
MaxLearns == 3          \* learn_association calls in a run of the model
MaxMemoryDay == 2       \* the clock stops here when the matcher's memory is followed
MaxWrites == 3          \* log_communication calls of the two engines together
MaxDay == 7             \* the clock stops here
MaxHistory == 2         \* communication records kept in a run of the model
MaxContacts == 7        \* contact counts drawn for one analyze_invoice decision
MaxLogs == 3            \* communication records of the single followed invoice
MaxFollowDay == 14      \* the clock stops here when one invoice is followed
MaxLevel == 6           \* escalation levels drawn for a composed message
MaxPriorContacts == 2   \* prior contacts drawn for a composed message

\* ------------------------------------------------------- program constants
CriticalDays == 60
BeyondLimitLevel == 4
CriticalLevel == 5
HistoryLinesShown == 5

\* ------------------------------------------------------------- strings
\* A string is kept as an atom; Chars gives its characters so that
\* str.upper(), str.lower() and the `in` substring test can be computed.
Chars ==
    [s \in {"Acme", "ACME", "Terra", "Terra W", "Globex", "Badco", "badco", "pat@x",
            "Pat@X", "bob@y", "unknown", "Pat Lee", "Pat", "Bob LLC", "", "Acme LLC",
            "GLOBEX WIRE", "acme pmt 1003", "GLOBEX", "ACME PMT", "1001", "1002", "1003",
            "GLOBEX 1001",
            "open", "Paid", "UNPAID"} |->
        CASE s = "Acme" -> <<"A", "c", "m", "e">>
          [] s = "ACME" -> <<"A", "C", "M", "E">>
          [] s = "Terra" -> <<"T", "e", "r", "r", "a">>
          [] s = "Terra W" -> <<"T", "e", "r", "r", "a", " ", "W">>
          [] s = "Globex" -> <<"G", "l", "o", "b", "e", "x">>
          [] s = "Badco" -> <<"B", "a", "d", "c", "o">>
          [] s = "badco" -> <<"b", "a", "d", "c", "o">>
          [] s = "pat@x" -> <<"p", "a", "t", "@", "x">>
          [] s = "Pat@X" -> <<"P", "a", "t", "@", "X">>
          [] s = "bob@y" -> <<"b", "o", "b", "@", "y">>
          [] s = "unknown" -> <<"u", "n", "k", "n", "o", "w", "n">>
          [] s = "Pat Lee" -> <<"P", "a", "t", " ", "L", "e", "e">>
          [] s = "Pat" -> <<"P", "a", "t">>
          [] s = "Bob LLC" -> <<"B", "o", "b", " ", "L", "L", "C">>
          [] s = "" -> <<>>
          [] s = "Acme LLC" -> <<"A", "c", "m", "e", " ", "L", "L", "C">>
          [] s = "GLOBEX WIRE" -> <<"G", "L", "O", "B", "E", "X", " ", "W", "I", "R", "E">>
          [] s = "acme pmt 1003" -> <<"a", "c", "m", "e", " ", "p", "m", "t", " ", "1", "0", "0", "3">>
          [] s = "GLOBEX" -> <<"G", "L", "O", "B", "E", "X">>
          [] s = "GLOBEX 1001" -> <<"G", "L", "O", "B", "E", "X", " ", "1", "0", "0", "1">>
          [] s = "ACME PMT" -> <<"A", "C", "M", "E", " ", "P", "M", "T">>
          [] s = "1001" -> <<"1", "0", "0", "1">>
          [] s = "1002" -> <<"1", "0", "0", "2">>
          [] s = "1003" -> <<"1", "0", "0", "3">>
          [] s = "open" -> <<"o", "p", "e", "n">>
          [] s = "Paid" -> <<"P", "a", "i", "d">>
          [] s = "UNPAID" -> <<"U", "N", "P", "A", "I", "D">>]

Strings == DOMAIN Chars

UpperPairs ==
    {<<"a", "A">>, <<"b", "B">>, <<"c", "C">>, <<"d", "D">>, <<"e", "E">>, <<"f", "F">>,
     <<"g", "G">>, <<"h", "H">>, <<"i", "I">>, <<"j", "J">>, <<"k", "K">>, <<"l", "L">>,
     <<"m", "M">>, <<"n", "N">>, <<"o", "O">>, <<"p", "P">>, <<"q", "Q">>, <<"r", "R">>,
     <<"s", "S">>, <<"t", "T">>, <<"u", "U">>, <<"v", "V">>, <<"w", "W">>, <<"x", "X">>,
     <<"y", "Y">>, <<"z", "Z">>}

\* str.upper() on one character
UpperChar(c) ==
    IF \E p \in UpperPairs : p[1] = c
    THEN (CHOOSE p \in UpperPairs : p[1] = c)[2]
    ELSE c

\* str.lower() on one character
LowerChar(c) ==
    IF \E p \in UpperPairs : p[2] = c
    THEN (CHOOSE p \in UpperPairs : p[2] = c)[1]
    ELSE c

Upper(s) == [i \in 1..Len(Chars[s]) |-> UpperChar(Chars[s][i])]
Lower(s) == [i \in 1..Len(Chars[s]) |-> LowerChar(Chars[s][i])]

\* Python `needle in haystack` on character sequences
IsSubstring(needle, haystack) ==
    \E i \in 0..(Len(haystack) - Len(needle)) :
        \A j \in 1..Len(needle) : haystack[i + j] = needle[j]

\* the string atom whose characters are cs
AsString(cs) == CHOOSE s \in Strings : Chars[s] = cs

\* str(email).strip().lower()
LowerString(s) == AsString(Lower(s))

\* ------------------------------------------------------------- sequences
RECURSIVE SumSeq(_)
SumSeq(s) == IF s = <<>> THEN 0 ELSE Head(s) + SumSeq(Tail(s))

RECURSIVE MaxSeq(_)
MaxSeq(s) == IF Len(s) = 1 THEN s[1]
             ELSE LET m == MaxSeq(Tail(s)) IN IF s[1] >= m THEN s[1] ELSE m

Range(s) == {s[i] : i \in 1..Len(s)}

\* ------------------------------------------------------------- config
\* KlausEngine._load_config defaults
DefaultConfig ==
    [high_value_threshold |-> 5000,
     days_until_first_reminder |-> 7,
     days_between_reminders |-> 7,
     max_autonomous_reminders |-> 3,
     blacklisted_contacts |-> {},
     vip_contacts |-> {}]

\* ------------------------------------------------------------- invoices
\* dict.get(key) of a field that may be missing
NoDate == "NoDate"

\* KlausEngine._extract_contact_name (contact_name, else company_name)
extract_contact_name(invoice) ==
    IF invoice.contact_name # None THEN invoice.contact_name
    ELSE invoice.company_name

\* KlausEngine._extract_contact_email
extract_contact_email(invoice) ==
    IF invoice.contact_email # None THEN LowerString(invoice.contact_email)
    ELSE "unknown"

\* KlausEngine._extract_first_name
extract_first_name(full_name) ==
    LET up == Upper(full_name)
        suffixes == {<<"L", "L", "C">>, <<"I", "N", "C">>, <<"C", "O", "R", "P">>,
                     <<"L", "T", "D">>, <<"L", "P">>}
        cs == Chars[full_name]
        stop == IF \E i \in 1..Len(cs) : cs[i] = " "
                THEN CHOOSE i \in 1..Len(cs) : cs[i] = " " /\ \A j \in 1..(i - 1) : cs[j] # " "
                ELSE Len(cs) + 1
    IN  IF full_name = "" \/ full_name = "Unknown" THEN ""
        ELSE IF \E x \in suffixes : IsSubstring(x, up) THEN ""
        ELSE AsString(SubSeq(cs, 1, stop - 1))

\* a history lookup that leaves out what was sent autonomously
get_contact_history_by_hand(self, invoice_id) ==
    SelectSeq(self.communication_history,
              LAMBDA c : c.invoice_id = invoice_id /\ c.approved_by # "autonomous")

\* KlausEngine._get_contact_history
get_contact_history(self, invoice_id) ==
    SelectSeq(self.communication_history, LAMBDA c : c.invoice_id = invoice_id)

\* KlausEngine.analyze_invoice, "Calculate days overdue"
days_overdue_of(due_date, t) ==
    IF due_date \in Int THEN t - due_date ELSE 0

\* a limit test that lets the reminder at the limit go out autonomously
beyond_limit_off_by_one(cfg, contact_count) == contact_count > cfg.max_autonomous_reminders

\* KlausEngine.analyze_invoice, "Beyond autonomous limit": the else of
\* `contact_count < self.max_autonomous_reminders`
beyond_limit(cfg, contact_count) == ~(contact_count < cfg.max_autonomous_reminders)

\* a level for the step past the autonomous limit that restarts the ladder
handover_restart(cfg, balance_due) ==
    [action_required |-> IF balance_due >= cfg.high_value_threshold THEN "call" ELSE "escalate",
     urgency |-> "high", escalation_level |-> 1, requires_approval |-> TRUE]

\* a step past the autonomous limit that asks for no approval
handover_unapproved(cfg, balance_due) ==
    [action_required |-> IF balance_due >= cfg.high_value_threshold THEN "call" ELSE "escalate",
     urgency |-> "high", escalation_level |-> BeyondLimitLevel, requires_approval |-> FALSE]

\* KlausEngine.analyze_invoice, "Beyond autonomous limit": call or escalate
handover(cfg, balance_due) ==
    [action_required |-> IF balance_due >= cfg.high_value_threshold THEN "call" ELSE "escalate",
     urgency |-> "high", escalation_level |-> BeyondLimitLevel, requires_approval |-> TRUE]

\* follow-ups that stay autonomous whatever the contact count
follow_up_unlimited(cfg, contact_count) == FALSE

\* KlausEngine.analyze_invoice, "if contact_count < self.max_autonomous_reminders"
follow_up_handed_over(cfg, contact_count) == beyond_limit(cfg, contact_count)

\* KlausEngine.analyze_invoice, "First reminder" and "Follow-up reminders"
base_decision(cfg, days_overdue, contact_count, days_since_last, balance_due) ==
    IF days_overdue >= cfg.days_until_first_reminder /\ contact_count = 0
    THEN [action_required |-> "email", urgency |-> "low",
          escalation_level |-> 1, requires_approval |-> FALSE]
    ELSE IF contact_count > 0 /\ days_since_last >= cfg.days_between_reminders
    THEN IF ~follow_up_handed_over(cfg, contact_count)
         THEN [action_required |-> "email", urgency |-> "medium",
               escalation_level |-> contact_count + 1, requires_approval |-> FALSE]
         ELSE handover(cfg, balance_due)
    ELSE [action_required |-> "none", urgency |-> "low",
          escalation_level |-> 0, requires_approval |-> FALSE]

\* a critical test that misses the sixtieth day itself
is_critical_after(days_overdue) == days_overdue > CriticalDays

\* KlausEngine.analyze_invoice, "Critical overdue"
is_critical(days_overdue) == days_overdue >= CriticalDays

\* KlausEngine.analyze_invoice, "Determine if action is needed" to the return:
\* the decision as a function of what it reads
decide(cfg, days_overdue, contact_count, days_since_last, balance_due, company_name) ==
    LET base == base_decision(cfg, days_overdue, contact_count, days_since_last, balance_due)
        critical ==
            IF is_critical(days_overdue)
            THEN [action_required |-> "escalate", urgency |-> "critical",
                  escalation_level |-> CriticalLevel, requires_approval |-> TRUE]
            ELSE base
        high ==
            IF balance_due >= cfg.high_value_threshold /\ critical.action_required = "call"
            THEN [critical EXCEPT !.requires_approval = TRUE]
            ELSE critical
        black ==
            IF company_name \in cfg.blacklisted_contacts
            THEN [high EXCEPT !.action_required = "none", !.requires_approval = TRUE]
            ELSE high
    IN  IF company_name \in cfg.vip_contacts
        THEN [black EXCEPT !.requires_approval = TRUE]
        ELSE black

\* KlausEngine.analyze_invoice
analyze_invoice(self, invoice, t) ==
    LET previous_contacts == get_contact_history(self, invoice.id)
        contact_count == Len(previous_contacts)
        days_overdue == days_overdue_of(invoice.due_date, t)
        days_since_last ==
            IF contact_count > 0 THEN t - previous_contacts[contact_count].sent_at ELSE 0
        d == decide(self.config, days_overdue, contact_count, days_since_last,
                    invoice.balance_due, invoice.company_name)
    IN  [invoice_id |-> invoice.id,
         invoice_number |-> invoice.number,
         company_name |-> invoice.company_name,
         contact_name |-> extract_contact_name(invoice),
         contact_email |-> extract_contact_email(invoice),
         balance_due |-> invoice.balance_due,
         days_overdue |-> days_overdue,
         due_date |-> invoice.due_date,
         action_required |-> d.action_required,
         urgency |-> d.urgency,
         requires_approval |-> d.requires_approval,
         escalation_level |-> d.escalation_level,
         contact_count |-> contact_count,
         last_contact_date |->
            IF contact_count > 0 THEN previous_contacts[contact_count].sent_at ELSE None]

\* ------------------------------------------------------------- composer
\* What a template says, beyond the interpolated data.
ThreatLanguage ==
    {"avoid any impact on our continued service",
     "we will need to suspend services",
     "we will be forced to suspend all services",
     "to avoid service interruption"}

\* sorted(invoices, key=days_overdue, reverse=True): stable, oldest first
RECURSIVE SortOldestFirst(_)
SortOldestFirst(s) ==
    IF s = <<>> THEN <<>>
    ELSE LET rest == SortOldestFirst(Tail(s))
             k == Cardinality({i \in 1..Len(rest) : rest[i].days_overdue > Head(s).days_overdue})
         IN  SubSeq(rest, 1, k) \o <<Head(s)>> \o SubSeq(rest, k + 1, Len(rest))

\* KlausEngine._format_contact_history: the number of lines it returns
format_contact_history(previous_contacts) ==
    IF Len(previous_contacts) <= HistoryLinesShown
    THEN Len(previous_contacts) ELSE HistoryLinesShown

\* KlausEngine._generate_standard_message
generate_standard_message(greeting, companies, invoice_count, invoice_table, total_balance, oldest_days, escalation_level, contact_history) ==
    LET common == [family |-> "standard", greeting |-> greeting,
                   invoice_table |-> invoice_table, total_balance |-> total_balance]
    IN  IF escalation_level = 1
        THEN common @@ [subject |-> "Payment Reminder",
                        language |-> {IF contact_history > 0
                                      THEN "I wanted to follow up regarding"
                                      ELSE "I hope this message finds you well"},
                        history_lines |-> 0, oldest_days |-> None]
        ELSE IF escalation_level = 2
        THEN common @@ [subject |-> "Follow-up",
                        language |-> {IF contact_history > 0
                                      THEN "We sent a reminder last week but haven't heard back"
                                      ELSE "I want to make sure everything is in order on your end"},
                        history_lines |-> 0, oldest_days |-> None]
        ELSE IF escalation_level = 3
        THEN common @@ [subject |-> "Important - Overdue Invoices Require Attention",
                        language |-> {"avoid any impact on our continued service"},
                        history_lines |-> contact_history, oldest_days |-> oldest_days]
        ELSE IF escalation_level = 4
        THEN common @@ [subject |-> "URGENT - Overdue Invoices Require Immediate Attention",
                        language |-> {"we will need to suspend services"},
                        history_lines |-> contact_history, oldest_days |-> oldest_days]
        ELSE common @@ [subject |-> "FINAL NOTICE - Severely Overdue Invoices",
                        language |-> {"we will be forced to suspend all services",
                                      "to avoid service interruption"},
                        history_lines |-> contact_history, oldest_days |-> oldest_days]

\* a VIP final stage that falls back to the standard final notice
generate_vip_message_final_notice(greeting, companies, invoice_count, invoice_table, total_balance, oldest_days, escalation_level, contact_history) ==
    IF escalation_level <= 4
    THEN [family |-> "vip", greeting |-> greeting, invoice_table |-> invoice_table,
          total_balance |-> total_balance, subject |-> "Following Up - Outstanding Invoices",
          language |-> {"Could we schedule a quick call to discuss payment timing"},
          history_lines |-> contact_history, oldest_days |-> oldest_days]
    ELSE generate_standard_message(greeting, companies, invoice_count, invoice_table,
                                   total_balance, oldest_days, escalation_level,
                                   contact_history)

\* KlausEngine._generate_vip_message
generate_vip_message(greeting, companies, invoice_count, invoice_table, total_balance, oldest_days, escalation_level, contact_history) ==
    LET common == [family |-> "vip", greeting |-> greeting, invoice_table |-> invoice_table,
                   total_balance |-> total_balance]
    IN  IF escalation_level <= 2
        THEN common @@ [subject |-> "Outstanding Invoices",
                        language |-> {"I wanted to make sure these are on your radar"},
                        history_lines |-> 0, oldest_days |-> None]
        ELSE IF escalation_level <= 4
        THEN common @@ [subject |-> "Following Up - Outstanding Invoices",
                        language |-> {"Could we schedule a quick call to discuss payment timing"},
                        history_lines |-> contact_history, oldest_days |-> oldest_days]
        ELSE common @@ [subject |-> "Important - Outstanding Balance Requiring Attention",
                        language |-> {"this balance is significantly overdue and needs attention",
                                      "Can we schedule a call this week to discuss"},
                        history_lines |-> contact_history, oldest_days |-> oldest_days]

\* KlausEngine._generate_consolidated_message
generate_consolidated_message(contact_name, companies, invs, escalation_level, all_company_contacts, is_vip) ==
    LET first_name == extract_first_name(contact_name)
        total_balance == SumSeq([i \in 1..Len(invs) |-> invs[i].balance_due])
        oldest_days == MaxSeq([i \in 1..Len(invs) |-> invs[i].days_overdue])
        invoice_count == Len(invs)
        sorted_invoices == SortOldestFirst(invs)
        invoice_table ==
            [i \in 1..Len(sorted_invoices) |->
                [invoice_number |-> sorted_invoices[i].invoice_number,
                 days_overdue |-> sorted_invoices[i].days_overdue,
                 balance_due |-> sorted_invoices[i].balance_due,
                 company |-> IF Cardinality(companies) > 1
                             THEN sorted_invoices[i].company_name ELSE None]]
        contact_history == format_contact_history(all_company_contacts)
    IN  IF is_vip
        THEN generate_vip_message(first_name, companies, invoice_count, invoice_table,
                                  total_balance, oldest_days, escalation_level, contact_history)
        ELSE generate_standard_message(first_name, companies, invoice_count, invoice_table,
                                       total_balance, oldest_days, escalation_level,
                                       contact_history)

\* ------------------------------------------------------------- analysis
\* grouping by company instead of by contact person
contact_key_by_company(a) == a.company_name

\* KlausEngine.analyze_overdue_invoices, "Use email as key ... Fall back to
\* company name if no email"
contact_key(a) ==
    IF a.contact_email # "unknown" THEN a.contact_email ELSE a.company_name

\* the keys of by_contact, in insertion order
RECURSIVE by_contact_keys(_)
by_contact_keys(analyses) ==
    IF analyses = <<>> THEN <<>>
    ELSE LET front == by_contact_keys(SubSeq(analyses, 1, Len(analyses) - 1))
             a == analyses[Len(analyses)]
         IN  IF a.action_required # "none" /\ contact_key(a) \notin Range(front)
             THEN Append(front, contact_key(a))
             ELSE front

\* by_contact[key]
by_contact(analyses, key) ==
    SelectSeq(analyses, LAMBDA a : a.action_required # "none" /\ contact_key(a) = key)

\* the VIP check of analyze_overdue_invoices (case-insensitive substring)
group_is_vip(self, contact_invoices) ==
    \E i \in 1..Len(contact_invoices) : \E vip_keyword \in self.config.vip_contacts :
        IsSubstring(Upper(vip_keyword), Upper(contact_invoices[i].company_name))

\* a consolidated action that takes the level of the group from its first invoice
consolidated_action_of_first(self, contact_invoices) ==
    LET max_escalation == contact_invoices[1].escalation_level
        first_invoice == contact_invoices[1]
        is_vip == group_is_vip(self, contact_invoices)
        all_contact_history ==
            SelectSeq(self.communication_history,
                      LAMBDA c : \E i \in 1..Len(contact_invoices) :
                                    contact_invoices[i].invoice_id = c.invoice_id)
        companies == {contact_invoices[i].company_name : i \in 1..Len(contact_invoices)}
    IN  [contact_name |-> first_invoice.contact_name,
         contact_email |-> first_invoice.contact_email,
         companies |-> companies,
         invoice_count |-> Len(contact_invoices),
         invoices |-> contact_invoices,
         total_balance |-> SumSeq([i \in 1..Len(contact_invoices) |-> contact_invoices[i].balance_due]),
         oldest_days_overdue |-> MaxSeq([i \in 1..Len(contact_invoices) |-> contact_invoices[i].days_overdue]),
         escalation_level |-> max_escalation,
         requires_approval |-> \E i \in 1..Len(contact_invoices) :
                                  contact_invoices[i].requires_approval,
         is_vip |-> is_vip,
         recommended_message |->
            generate_consolidated_message(first_invoice.contact_name, companies,
                                          contact_invoices, max_escalation,
                                          all_contact_history, is_vip),
         action_required |->
            IF \E i \in 1..Len(contact_invoices) : contact_invoices[i].action_required = "call"
            THEN "call" ELSE "email"]

\* KlausEngine.analyze_overdue_invoices, "create consolidated actions per
\* contact person": the action built for one group
consolidated_action(self, contact_invoices) ==
    LET max_escalation == MaxSeq([i \in 1..Len(contact_invoices) |-> contact_invoices[i].escalation_level])
        first_invoice == contact_invoices[1]
        is_vip == group_is_vip(self, contact_invoices)
        all_contact_history ==
            SelectSeq(self.communication_history,
                      LAMBDA c : \E i \in 1..Len(contact_invoices) :
                                    contact_invoices[i].invoice_id = c.invoice_id)
        companies == {contact_invoices[i].company_name : i \in 1..Len(contact_invoices)}
    IN  [contact_name |-> first_invoice.contact_name,
         contact_email |-> first_invoice.contact_email,
         companies |-> companies,
         invoice_count |-> Len(contact_invoices),
         invoices |-> contact_invoices,
         total_balance |-> SumSeq([i \in 1..Len(contact_invoices) |-> contact_invoices[i].balance_due]),
         oldest_days_overdue |-> MaxSeq([i \in 1..Len(contact_invoices) |-> contact_invoices[i].days_overdue]),
         escalation_level |-> max_escalation,
         requires_approval |-> \E i \in 1..Len(contact_invoices) :
                                  contact_invoices[i].requires_approval,
         is_vip |-> is_vip,
         recommended_message |->
            generate_consolidated_message(first_invoice.contact_name, companies,
                                          contact_invoices, max_escalation,
                                          all_contact_history, is_vip),
         action_required |->
            IF \E i \in 1..Len(contact_invoices) : contact_invoices[i].action_required = "call"
            THEN "call" ELSE "email"]

\* the action type looked at before the approval flag
bucket_of_type_first(action) ==
    IF action.action_required = "email" THEN "autonomous_emails"
    ELSE IF action.requires_approval THEN "pending_approvals"
    ELSE IF action.action_required = "call" THEN "autonomous_calls"
    ELSE "dropped"

\* KlausEngine.analyze_overdue_invoices, the bucket an action is appended to
bucket_of(action) ==
    IF action.requires_approval THEN "pending_approvals"
    ELSE IF action.action_required = "email" THEN "autonomous_emails"
    ELSE IF action.action_required = "call" THEN "autonomous_calls"
    ELSE "dropped"

\* a pending list that is kept on the engine and never reset between calls
collect_pending_kept(self, actions) ==
    self.pending_approvals \o SelectSeq(actions, LAMBDA a : bucket_of(a) = "pending_approvals")

\* KlausEngine.analyze_overdue_invoices: pending_approvals starts empty in
\* every call and collects the actions that require approval
collect_pending(self, actions) ==
    SelectSeq(actions, LAMBDA a : bucket_of(a) = "pending_approvals")

\* KlausEngine.analyze_overdue_invoices
analyze_overdue_invoices(self, invs, t) ==
    LET all_analyses == [i \in 1..Len(invs) |-> analyze_invoice(self, invs[i], t)]
        keys == by_contact_keys(all_analyses)
        actions == [i \in 1..Len(keys) |-> consolidated_action(self, by_contact(all_analyses, keys[i]))]
        no_action_invoices == SelectSeq(all_analyses, LAMBDA a : a.action_required = "none")
    IN  [total_analyzed |-> Len(invs),
         total_contacts |-> Len(keys),
         autonomous_emails |->
            SelectSeq(actions, LAMBDA a : bucket_of(a) = "autonomous_emails"),
         autonomous_calls |->
            SelectSeq(actions, LAMBDA a : bucket_of(a) = "autonomous_calls"),
         pending_approvals |-> collect_pending(self, actions),
         no_action_count |-> Len(no_action_invoices)]

\* ------------------------------------------------------------- engine state
\* the KlausEngine object the methods are called on
Self ==
    [config |-> config,
     communication_history |-> communication_history,
     pending_approvals |-> pending_approvals]

\* the invoices HubSpot can return
InvoicePool ==
    <<[id |-> "inv1", number |-> "1001", company_name |-> "Acme", contact_name |-> "Pat Lee",
       contact_email |-> "Pat@X", balance_due |-> 1000, due_date |-> -5],
      [id |-> "inv2", number |-> "1002", company_name |-> "Terra W", contact_name |-> "Pat Lee",
       contact_email |-> "pat@x", balance_due |-> 6000, due_date |-> -55],
      [id |-> "inv3", number |-> "1003", company_name |-> "Globex", contact_name |-> None,
       contact_email |-> None, balance_due |-> 500, due_date |-> -7],
      [id |-> "inv4", number |-> "1004", company_name |-> "Badco", contact_name |-> "Bob LLC",
       contact_email |-> "bob@y", balance_due |-> 7000, due_date |-> -58]>>

\* the invoice lists a caller passes, as positions in the pool
InvoiceLists ==
    {[i \in 1..Len(ix) |-> InvoicePool[ix[i]]] :
        ix \in {<<>>, <<3>>, <<1, 2>>, <<4, 1>>, <<1, 2, 3, 4>>, <<4, 3, 2, 1>>}}

EngineConfigs ==
    {[DefaultConfig EXCEPT !.blacklisted_contacts = {"Badco"}, !.vip_contacts = {"Terra"}],
     [DefaultConfig EXCEPT !.max_autonomous_reminders = 2, !.vip_contacts = {"Acme"}]}

\* the days between two points at which the engine is called
TickSteps == {7}

NoAnalysis ==
    [total_analyzed |-> 0, total_contacts |-> 0, autonomous_emails |-> <<>>,
     autonomous_calls |-> <<>>, pending_approvals |-> <<>>, no_action_count |-> 0]

\* KlausEngine.__init__ with no history file on disk
InitEngine ==
    /\ now = 0
    /\ config \in EngineConfigs
    /\ communication_history = <<>>
    /\ history_file = <<>>
    /\ pending_approvals = <<>>
    /\ invoices = <<>>
    /\ analysis = NoAnalysis
    /\ fresh = FALSE
    /\ repeated = FALSE

IdleInvoice ==
    /\ inv_in = None
    /\ inv_out = [action_required |-> "unset", escalation_level |-> 0]
    /\ prior_level = 0
    /\ dec_in = None
    /\ dec_out = [action_required |-> "unset", urgency |-> "low", escalation_level |-> 0,
                  requires_approval |-> FALSE]

IdleMessage ==
    /\ msg_in = None
    /\ msg_out = [family |-> "unset"]

\* database.load_memory: default_memory (processor_patterns is never read)
DefaultMemory == [associations |-> {}, denied_matches |-> <<>>, accounted_transactions |-> <<>>]

NoCall ==
    [transactions |-> <<>>, fetched |-> <<>>, invoices |-> <<>>, confidence_threshold |-> -1,
     fuzzy |-> <<>>]

IdleMatcher ==
    /\ memory = DefaultMemory
    /\ match_in = NoCall
    /\ matches = <<>>
    /\ denied_calls = {}

NoScore == [confidence |-> -1]

IdleScore ==
    /\ score_in = None
    /\ score_out = NoScore

\* the engine of main.py and the engine of klaus_integration.py
Writers == {"main", "integration"}

IdleWriters ==
    /\ engines = [w \in Writers |-> <<>>]
    /\ logged = {}

NotRun == [run |-> FALSE]

IdleDefects == defect_out = NotRun

NoMemoryCall == [recorded |-> FALSE]

IdleMemoryCall == memory_call = NoMemoryCall

IdleLearn == learn_log = <<>>

NoAccountCall == [called |-> FALSE]

IdleAccount == account_call = NoAccountCall

NoRun == [ran |-> FALSE]

\* klaus_call_queue.json does not exist
NoFile == [exists |-> FALSE]

IdleVoice ==
    /\ daily_limit = 10
    /\ calls_today = 0
    /\ last_reset_date = 0
    /\ queue = <<>>
    /\ queue_file = NoFile
    /\ today = 0
    /\ last_run = NoRun

IdleAnalyzed == analyzed = [at |-> 0, len |-> 0]

IdleLate == IdleAccount /\ IdleVoice /\ IdleAnalyzed

IdleCase ==
    /\ IdleScore
    /\ IdleWriters
    /\ IdleDefects
    /\ IdleMemoryCall
    /\ IdleLearn
    /\ IdleLate

\* KlausEngine.get_pending_approvals
get_pending_approvals == pending_approvals

\* a caller runs analyze_overdue_invoices on the invoices it fetched
AnalyzeOverdue ==
    /\ \E invs \in InvoiceLists :
        /\ invoices' = invs
        /\ analysis' = analyze_overdue_invoices(Self, invs, now)
        /\ repeated' = (fresh /\ invs = invoices)
    /\ pending_approvals' = analysis'.pending_approvals
    /\ fresh' = TRUE
    /\ analyzed' = [at |-> now, len |-> Len(communication_history)]
    /\ UNCHANGED <<now, config, communication_history, history_file>>
    /\ UNCHANGED <<invoice_vars, message_vars, matcher_vars, score_vars, writer_vars,
                   defect_out, memory_call, learn_log, account_call, voice_vars>>

\* KlausEngine.log_communication (and _save_history)
LogCommunication ==
    /\ Len(communication_history) < MaxHistory
    /\ \E i \in 1..Len(InvoicePool), by \in {"user"} :
        communication_history' =
            Append(communication_history,
                   [invoice_id |-> InvoicePool[i].id,
                    company_name |-> InvoicePool[i].company_name,
                    method |-> "email",
                    message_type |-> "reminder",
                    sent_at |-> now,
                    approved_by |-> by])
    /\ history_file' = communication_history'
    /\ fresh' = FALSE
    /\ UNCHANGED <<now, config, pending_approvals, invoices, analysis, repeated>>
    /\ UNCHANGED <<invoice_vars, message_vars, matcher_vars, case_vars>>

\* time passes
Tick ==
    /\ \E d \in TickSteps :
        /\ now + d <= MaxDay
        /\ now' = now + d
    /\ fresh' = FALSE
    /\ UNCHANGED <<config, communication_history, history_file, pending_approvals,
                   invoices, analysis, repeated>>
    /\ UNCHANGED <<invoice_vars, message_vars, matcher_vars, case_vars>>

Init == InitEngine /\ IdleInvoice /\ IdleMessage /\ IdleMatcher /\ IdleCase

Next == AnalyzeOverdue \/ LogCommunication \/ Tick

Spec == Init /\ [][Next]_vars

\* ------------------------------------------------------------- C3
\* the actions of a result, over its three buckets
AllActions(result) ==
    result.autonomous_emails \o result.autonomous_calls \o result.pending_approvals

\* C3: a call of analyze_overdue_invoices that repeats the call before it (same
\* invoices, nothing logged and no clock change in between) returns the same
\* autonomous_emails, autonomous_calls and pending_approvals as that call,
\* whatever the engine kept from it.
C3_Idempotent ==
    [][(fresh /\ fresh' /\ invoices' = invoices) => analysis' = analysis]_vars

C3_Witness ==
    /\ repeated
    /\ pending_approvals # <<>>
    /\ analysis.autonomous_emails # <<>>
    /\ analysis.pending_approvals # <<>>

\* ------------------------------------------------------------- C6
\* the contact key of an input invoice, read off the invoice itself
InvoiceKey(invoice) ==
    IF invoice.contact_email = None THEN invoice.company_name
    ELSE LowerString(invoice.contact_email)

\* the input invoices that need an action now
Actionable ==
    {i \in 1..Len(invoices) : analyze_invoice(Self, invoices[i], now).action_required # "none"}

ActionIds(a) == {a.invoices[i].invoice_id : i \in 1..Len(a.invoices)}

C7_BucketsPartition ==
    LET acts == AllActions(analysis)
    IN  /\ \A n \in 1..Len(analysis.pending_approvals) :
            analysis.pending_approvals[n].requires_approval
        /\ \A n \in 1..Len(analysis.autonomous_emails) :
            /\ ~analysis.autonomous_emails[n].requires_approval
            /\ analysis.autonomous_emails[n].action_required = "email"
        /\ \A n \in 1..Len(analysis.autonomous_calls) :
            /\ ~analysis.autonomous_calls[n].requires_approval
            /\ analysis.autonomous_calls[n].action_required = "call"
        /\ Len(acts) = analysis.total_contacts
        /\ \A m, n \in 1..Len(acts) : m # n => ActionIds(acts[m]) \cap ActionIds(acts[n]) = {}
        /\ \A n \in 1..Len(acts) : \A i \in 1..Len(acts[n].invoices) :
            acts[n].invoices[i].action_required # "none"
        /\ analysis.no_action_count + SumSeq([n \in 1..Len(acts) |-> acts[n].invoice_count])
            = analysis.total_analyzed
        /\ fresh =>
            /\ analysis.no_action_count = Len(invoices) - Cardinality(Actionable)
            /\ \A i \in 1..Len(invoices) :
                i \notin Actionable => \A n \in 1..Len(acts) : invoices[i].id \notin ActionIds(acts[n])

C7_Witness ==
    /\ fresh
    /\ analysis.pending_approvals # <<>>
    /\ analysis.autonomous_emails # <<>>
    /\ analysis.no_action_count > 0

\* ------------------------------------------------------------- one decision
\* The decision of analyze_invoice over drawn inputs.
DaysOverdueDrawn == {0, 6, 7, 8, 30, 59, 60, 61, 65}
DaysSinceDrawn == {0, 6, 7, 8}
BalancesDrawn == {1000, 5000, 6000}
CompaniesDrawn == {"Acme", "Badco", "Terra"}

DecisionConfigs ==
    {[DefaultConfig EXCEPT !.blacklisted_contacts = {"Badco"}, !.vip_contacts = {"Terra"}],
     [DefaultConfig EXCEPT !.max_autonomous_reminders = 7, !.days_between_reminders = 6,
                           !.days_until_first_reminder = 8,
                           !.blacklisted_contacts = {"Badco"}, !.vip_contacts = {"Terra"}]}

\* no decision taken yet
NoDecision ==
    [action_required |-> "unset", urgency |-> "low", escalation_level |-> 0,
     requires_approval |-> FALSE]

Decided == dec_out.action_required # "unset"

IdleEngine ==
    /\ now = 0
    /\ communication_history = <<>>
    /\ history_file = <<>>
    /\ pending_approvals = <<>>
    /\ invoices = <<>>
    /\ analysis = NoAnalysis
    /\ fresh = FALSE
    /\ repeated = FALSE

InitDecision ==
    /\ config \in DecisionConfigs
    /\ dec_in \in [days_overdue : DaysOverdueDrawn, contact_count : 0..MaxContacts,
                   days_since_last : DaysSinceDrawn, balance_due : BalancesDrawn,
                   company_name : CompaniesDrawn]
    /\ dec_out = NoDecision
    /\ inv_in = None
    /\ inv_out = [action_required |-> "unset", escalation_level |-> 0]
    /\ prior_level = 0
    /\ IdleEngine
    /\ IdleMessage
    /\ IdleMatcher
    /\ IdleCase

decision_of(cfg, in) ==
    decide(cfg, in.days_overdue, in.contact_count, in.days_since_last, in.balance_due,
           in.company_name)

\* analyze_invoice decides for the drawn inputs
Decide ==
    /\ ~Decided
    /\ dec_out' = decision_of(config, dec_in)
    /\ UNCHANGED <<engine_vars, inv_in, inv_out, prior_level, dec_in, message_vars, matcher_vars, case_vars>>

\* analyze_invoice decides again when the invoice is more days overdue, all else equal
DecideLater ==
    /\ Decided
    /\ \E d \in DaysOverdueDrawn :
        /\ d > dec_in.days_overdue
        /\ dec_in' = [dec_in EXCEPT !.days_overdue = d]
    /\ dec_out' = decision_of(config, dec_in')
    /\ UNCHANGED <<engine_vars, inv_in, inv_out, prior_level, message_vars, matcher_vars, case_vars>>

NextDecision == Decide \/ DecideLater

SpecDecision == InitDecision /\ [][NextDecision]_vars

\* ------------------------------------------------------------- C5
\* C5: with the contact count, the days since the last contact, the balance
\* and the configuration held equal, the escalation_level decided for more
\* days overdue is never below the one decided for fewer days overdue.
C5_MonotonicInDaysOverdue ==
    [][(Decided /\ Decided')
        => dec_out'.escalation_level >= dec_out.escalation_level]_vars

\* ------------------------------------------------------------- C9
\* C9: an invoice 60 or more days overdue gets level 5, requires_approval and
\* action 'escalate', whatever its contact history and balance.
C9_CriticalAlwaysEscalates ==
    (Decided /\ dec_in.days_overdue >= 60)
        => /\ dec_out.escalation_level = 5
           /\ dec_out.requires_approval
           /\ dec_out.action_required = "escalate"

\* C9 amended: as C9 for a company that is not blacklisted; for a blacklisted
\* company the action is 'none', still with level 5 and requires_approval.
C9_CriticalUnlessBlacklisted ==
    (Decided /\ dec_in.days_overdue >= 60)
        => /\ dec_out.escalation_level = 5
           /\ dec_out.requires_approval
           /\ dec_out.action_required =
                IF dec_in.company_name \in config.blacklisted_contacts
                THEN "none" ELSE "escalate"

C9_Witness ==
    /\ Decided
    /\ dec_in.days_overdue = 60
    /\ dec_in.contact_count > 0
    /\ dec_in.days_since_last < config.days_between_reminders
    /\ dec_in.company_name \notin config.blacklisted_contacts
    /\ dec_out.action_required = "escalate"

FollowedInvoices ==
    {[id |-> "inv1", number |-> "1001", company_name |-> "Acme", contact_name |-> "Pat Lee",
      contact_email |-> "pat@x", balance_due |-> b, due_date |-> d] :
        b \in {1000, 6000}, d \in {-50, -3}}

FollowConfigs ==
    {DefaultConfig, [DefaultConfig EXCEPT !.max_autonomous_reminders = 2]}

Analysed == inv_out.action_required # "unset"

InitFollow ==
    /\ now = 0
    /\ config \in FollowConfigs
    /\ communication_history = <<>>
    /\ history_file = <<>>
    /\ pending_approvals = <<>>
    /\ invoices = <<>>
    /\ analysis = NoAnalysis
    /\ fresh = FALSE
    /\ repeated = FALSE
    /\ inv_in \in FollowedInvoices
    /\ inv_out = [action_required |-> "unset", escalation_level |-> 0]
    /\ prior_level = 0
    /\ dec_in = None
    /\ dec_out = NoDecision
    /\ IdleMessage
    /\ IdleMatcher
    /\ IdleCase

\* a run: analyze_invoice(inv_in)
AnalyzeFollowed ==
    /\ inv_out' = analyze_invoice(Self, inv_in, now)
    /\ prior_level' = IF Analysed /\ inv_out.escalation_level > prior_level
                      THEN inv_out.escalation_level ELSE prior_level
    /\ UNCHANGED <<engine_vars, inv_in, dec_in, dec_out, message_vars, matcher_vars, case_vars>>

\* KlausEngine.log_communication for the followed invoice
LogFollowed ==
    /\ Len(communication_history) < MaxLogs
    /\ communication_history' =
        Append(communication_history,
               [invoice_id |-> inv_in.id, company_name |-> inv_in.company_name,
                method |-> "email", message_type |-> "reminder", sent_at |-> now,
                approved_by |-> "user"])
    /\ history_file' = communication_history'
    /\ UNCHANGED <<now, config, pending_approvals, invoices, analysis, fresh, repeated>>
    /\ UNCHANGED <<invoice_vars, message_vars, matcher_vars, case_vars>>

\* time passes
TickFollowed ==
    /\ \E d \in TickSteps :
        /\ now + d <= MaxFollowDay
        /\ now' = now + d
    /\ UNCHANGED <<config, communication_history, history_file, pending_approvals,
                   invoices, analysis, fresh, repeated>>
    /\ UNCHANGED <<invoice_vars, message_vars, matcher_vars, case_vars>>

NextFollow == AnalyzeFollowed \/ LogFollowed \/ TickFollowed

SpecFollow == InitFollow /\ [][NextFollow]_vars

AnalysesDrawn ==
    {<<[invoice_number |-> "1001", company_name |-> "Acme", balance_due |-> 1000,
        days_overdue |-> 12]>>,
     <<[invoice_number |-> "1001", company_name |-> "Acme", balance_due |-> 1000,
        days_overdue |-> 12],
       [invoice_number |-> "1002", company_name |-> "Terra W", balance_due |-> 6000,
        days_overdue |-> 62]>>}

ContactsDrawn ==
    {[i \in 1..n |-> [invoice_id |-> "inv1", sent_at |-> i]] : n \in 0..MaxPriorContacts}

InitMessage ==
    /\ msg_in \in [contact_name : {"Pat Lee", "Bob LLC"},
                   invs : AnalysesDrawn,
                   escalation_level : 0..MaxLevel,
                   all_company_contacts : ContactsDrawn,
                   is_vip : BOOLEAN]
    /\ msg_out = [family |-> "unset"]
    /\ config = DefaultConfig
    /\ IdleEngine
    /\ IdleInvoice
    /\ IdleMatcher
    /\ IdleCase

Composed == msg_out.family # "unset"

\* the composer is called
Compose ==
    /\ ~Composed
    /\ msg_out' =
        generate_consolidated_message(
            msg_in.contact_name,
            {msg_in.invs[i].company_name : i \in 1..Len(msg_in.invs)},
            msg_in.invs, msg_in.escalation_level, msg_in.all_company_contacts,
            msg_in.is_vip)
    /\ UNCHANGED <<engine_vars, invoice_vars, msg_in, matcher_vars, case_vars>>

NextMessage == Compose

SpecMessage == InitMessage /\ [][NextMessage]_vars

\* ------------------------------------------------------------- C8
\* C8: the message composed for a VIP group is a VIP template and holds no
\* suspension or threat language, at every escalation level and with or
\* without prior contacts; the family follows is_vip alone.
C8_VipNeverThreatened ==
    Composed =>
        /\ (msg_out.family = "vip") <=> msg_in.is_vip
        /\ msg_in.is_vip => msg_out.language \cap ThreatLanguage = {}

C8_Witness ==
    /\ Composed
    /\ msg_in.is_vip
    /\ msg_in.escalation_level = 5
    /\ msg_in.all_company_contacts # <<>>
    /\ msg_out.history_lines > 0

\* =================================================== matching_engine.py
\* ----------------------------------------------------- matcher strings
\* re: the characters \w matches
WordChars ==
    {p[1] : p \in UpperPairs} \cup {p[2] : p \in UpperPairs}
        \cup {"0", "1", "2", "3", "4", "5", "6", "7", "8", "9", "_"}

IsWordChar(s, i) == i >= 1 /\ i <= Len(s) /\ s[i] \in WordChars

\* re: \b between positions i - 1 and i
WordBoundary(s, i) == IsWordChar(s, i - 1) # IsWordChar(s, i)

\* re: \b pat \b matches at position i ("." in pat matches any character)
SuffixAt(s, pat, i) ==
    /\ i + Len(pat) - 1 <= Len(s)
    /\ \A k \in 1..Len(pat) : pat[k] = "." \/ pat[k] = s[i + k - 1]
    /\ WordBoundary(s, i)
    /\ WordBoundary(s, i + Len(pat))

\* re.sub(rf'\b{pat}\b', '', s), scanning from position i
RECURSIVE RemoveSuffixFrom(_, _, _)
RemoveSuffixFrom(s, pat, i) ==
    IF i > Len(s) THEN <<>>
    ELSE IF SuffixAt(s, pat, i) THEN RemoveSuffixFrom(s, pat, i + Len(pat))
    ELSE <<s[i]>> \o RemoveSuffixFrom(s, pat, i + 1)

\* the value of a one-element set; {f(x) : x \in {e}} evaluates e once,
\* however often f reads x
TheOne(S) == CHOOSE x \in S : TRUE

\* for suffix in suffixes: name = re.sub(...), from the k-th suffix on
RECURSIVE RemoveSuffixes(_, _, _)
RemoveSuffixes(s, pats, k) ==
    IF k > Len(pats) THEN s
    ELSE TheOne({RemoveSuffixes(r, pats, k + 1) : r \in {RemoveSuffixFrom(s, pats[k], 1)}})

\* re.sub(r'[^\w\s]', ' ', s)
PunctuationToSpace(s) ==
    [i \in 1..Len(s) |-> IF s[i] \in WordChars \/ s[i] = " " THEN s[i] ELSE " "]

RECURSIVE LStrip(_)
LStrip(s) == IF Len(s) > 0 /\ s[1] = " " THEN LStrip(Tail(s)) ELSE s

RECURSIVE DropSpaces(_)
DropSpaces(s) ==
    IF Len(s) = 0 THEN <<>>
    ELSE IF s[1] = " " /\ (Len(s) = 1 \/ s[2] = " ") THEN DropSpaces(Tail(s))
    ELSE <<s[1]>> \o DropSpaces(Tail(s))

\* ' '.join(s.split())
JoinSplit(s) == TheOne({DropSpaces(u) : u \in {LStrip(t) : t \in {s}}})

\* str.replace(old, new), old not empty
RECURSIVE Replace(_, _, _)
Replace(s, old, new) ==
    IF Len(s) < Len(old) THEN s
    ELSE IF SubSeq(s, 1, Len(old)) = old
         THEN new \o Replace(SubSeq(s, Len(old) + 1, Len(s)), old, new)
    ELSE <<s[1]>> \o Replace(Tail(s), old, new)

EndsWith(s, suffix) ==
    Len(s) >= Len(suffix) /\ SubSeq(s, Len(s) - Len(suffix) + 1, Len(s)) = suffix

\* ReconciliationEngine._clean_company_name: suffixes
CleanSuffixes ==
    <<<<"l", "l", "c">>, <<"i", "n", "c">>, <<"c", "o", "r", "p">>, <<"l", "t", "d">>,
      <<"c", "o">>, <<"l", ".", "l", ".", "c", ".">>, <<"l", ".", "p", ".">>, <<"l", "p">>>>

\* ReconciliationEngine._clean_company_name
clean_company_name(name) ==
    IF name = "" \/ name = None THEN <<>>
    ELSE TheOne({JoinSplit(PunctuationToSpace(r)) :
                    r \in {RemoveSuffixes(l, CleanSuffixes, 1) : l \in {Lower(name)}}})

\* ReconciliationEngine._extract_company_core: suffixes
CoreSuffixes ==
    <<<<"L", "L", "C">>, <<"I", "N", "C">>, <<"C", "O", "R", "P">>,
      <<"C", "O", "R", "P", "O", "R", "A", "T", "I", "O", "N">>, <<"L", "T", "D">>,
      <<"L", "I", "M", "I", "T", "E", "D">>, <<"L", "P">>, <<"L", "L", "P">>,
      <<"O", "W", "N", "E", "R">>, <<"O", "W", "N", "E", "R", "S">>,
      <<"O", "W", "N", "E", "R", "S", "H", "I", "P">>,
      <<"P", "R", "O", "P", "E", "R", "T", "I", "E", "S">>,
      <<"P", "R", "O", "P", "E", "R", "T", "Y">>, <<"P", "R", "O", "P">>,
      <<"G", "R", "O", "U", "P">>, <<"H", "O", "L", "D", "I", "N", "G", "S">>,
      <<"H", "O", "L", "D", "I", "N", "G">>,
      <<"I", "N", "V", "E", "S", "T", "M", "E", "N", "T", "S">>,
      <<"I", "N", "V", "E", "S", "T", "M", "E", "N", "T">>, <<"I", "N", "V", "E", "S", "T">>,
      <<"M", "A", "N", "A", "G", "E", "M", "E", "N", "T">>, <<"M", "G", "M", "T">>,
      <<"M", "G", "T">>, <<"P", "A", "R", "T", "N", "E", "R", "S">>,
      <<"P", "A", "R", "T", "N", "E", "R">>,
      <<"A", "S", "S", "O", "C", "I", "A", "T", "E", "S">>, <<"A", "S", "S", "O", "C">>,
      <<"E", "N", "T", "E", "R", "P", "R", "I", "S", "E", "S">>,
      <<"E", "N", "T", "E", "R", "P", "R", "I", "S", "E">>,
      <<"C", "O", "M", "P", "A", "N", "Y">>, <<"C", "O">>,
      <<"R", "E", "A", "L", " ", "E", "S", "T", "A", "T", "E">>,
      <<"R", "E", "A", "L", "T", "Y">>,
      <<"D", "E", "V", "E", "L", "O", "P", "M", "E", "N", "T">>, <<"D", "E", "V">>,
      <<"C", "A", "P", "I", "T", "A", "L">>, <<"C", "A", "P">>,
      <<"V", "E", "N", "T", "U", "R", "E", "S">>, <<"V", "E", "N", "T", "U", "R", "E">>,
      <<"T", "R", "U", "S", "T">>, <<"T", "R">>, <<"F", "U", "N", "D">>,
      <<"F", "U", "N", "D", "S">>, <<"M", "F">>>>

\* ReconciliationEngine._extract_company_core: one turn of the loop
remove_core_suffix(core, suffix) ==
    TheOne({IF EndsWith(b, suffix) THEN SubSeq(b, 1, Len(b) - Len(suffix)) ELSE b :
               b \in {Replace(a, <<" ">> \o suffix, <<>>) :
                         a \in {Replace(c, <<" ">> \o suffix \o <<" ">>, <<" ">>) :
                                   c \in {core}}}})

\* ReconciliationEngine._extract_company_core: the loop, from the k-th suffix on
RECURSIVE RemoveCoreSuffixes(_, _)
RemoveCoreSuffixes(core, k) ==
    IF k > Len(CoreSuffixes) THEN core
    ELSE TheOne({RemoveCoreSuffixes(c, k + 1) :
                    c \in {remove_core_suffix(core, CoreSuffixes[k])}})

\* ReconciliationEngine._extract_company_core
extract_company_core(company_name) == JoinSplit(RemoveCoreSuffixes(company_name, 1))

\* ReconciliationEngine.PROCESSORS: name and keywords, in dict order
PROCESSORS ==
    <<[name |-> "stripe", chars |-> <<"s", "t", "r", "i", "p", "e">>,
       keywords |-> <<<<"s", "t", "r", "i", "p", "e">>, <<"s", "t", "-">>>>],
      [name |-> "avidpay", chars |-> <<"a", "v", "i", "d", "p", "a", "y">>,
       keywords |-> <<<<"a", "v", "i", "d", "p", "a", "y">>>>],
      [name |-> "ach", chars |-> <<"a", "c", "h">>,
       keywords |-> <<<<"a", "c", "h">>, <<"s", "e", "c", ":", "c", "c", "d">>, <<"s", "e", "c", ":", "p", "p", "d">>>>],
      [name |-> "wire", chars |-> <<"w", "i", "r", "e">>,
       keywords |-> <<<<"f", "e", "d", "w", "i", "r", "e">>, <<"c", "h", "i", "p", "s">>, <<"w", "i", "r", "e">>>>],
      [name |-> "rtp", chars |-> <<"r", "t", "p">>,
       keywords |-> <<<<"r", "e", "a", "l", " ", "t", "i", "m", "e", " ", "p", "a", "y", "m", "e", "n", "t">>>>],
      [name |-> "zelle", chars |-> <<"z", "e", "l", "l", "e">>,
       keywords |-> <<<<"z", "e", "l", "l", "e">>>>],
      [name |-> "amex", chars |-> <<"a", "m", "e", "x">>,
       keywords |-> <<<<"a", "m", "e", "r", "i", "c", "a", "n", " ", "e", "x", "p", "r", "e", "s", "s">>>>]>>

\* _match_names_smart: trans_desc.replace(processor, ''), from the k-th processor on
RECURSIVE RemoveProcessors(_, _)
RemoveProcessors(trans_desc, k) ==
    IF k > Len(PROCESSORS) THEN trans_desc
    ELSE TheOne({RemoveProcessors(r, k + 1) :
                    r \in {Replace(d, PROCESSORS[k].chars, <<>>) : d \in {trans_desc}}})

\* ReconciliationEngine.detect_processor: the processor's name, or None
detect_processor(transaction) ==
    TheOne({IF hits = {} THEN None
            ELSE PROCESSORS[CHOOSE i \in hits : \A j \in hits : i <= j].name :
               hits \in {{i \in 1..Len(PROCESSORS) :
                             \E k \in 1..Len(PROCESSORS[i].keywords) :
                                 IsSubstring(PROCESSORS[i].keywords[k], description)} :
                            description \in {Lower(transaction.description)}}})

\* ----------------------------------------------------- matcher inputs
MatchInvoice(id, number, company_name, amount, created_date, status) ==
    [id |-> id, number |-> number, company_name |-> company_name, amount |-> amount,
     created_date |-> created_date, status |-> status]

BankTransaction(transaction_id, description, amount, date, is_credit) ==
    [transaction_id |-> transaction_id, description |-> description, amount |-> amount,
     date |-> date, is_credit |-> is_credit]

MatchInvoicePool ==
    <<MatchInvoice("inv1", "1001", "Globex", 100000, 0, "open"),
      MatchInvoice("inv2", "1002", "Globex", 100000, 0, ""),
      MatchInvoice("inv3", "1003", "Acme LLC", 50000, 10, "UNPAID"),
      MatchInvoice("inv3", "1003", "Acme LLC", 50000, 10, "Paid")>>

TransactionPool ==
    <<BankTransaction("t1", "GLOBEX WIRE", 100000, 5, TRUE),
      BankTransaction("t2", "GLOBEX WIRE", 98450, 6, TRUE),
      BankTransaction("t3", "acme pmt 1003", 50000, 12, TRUE),
      BankTransaction("t4", "GLOBEX WIRE", 100000, 5, FALSE)>>

\* an invoice as HubSpotClient.get_invoices builds it
Fetched(inv, balance_due, payment_date) ==
    [id |-> inv.id, number |-> inv.number, company_name |-> inv.company_name,
     amount |-> inv.amount, created_date |-> inv.created_date, status |-> inv.status,
     balance_due |-> balance_due, payment_date |-> payment_date]

\* the invoices HubSpot holds: the four of the pool still owed in full, inv1
\* with nothing left to pay and inv2 with a payment date
HubSpotPool ==
    <<Fetched(MatchInvoicePool[1], 100000, Missing),
      Fetched(MatchInvoicePool[2], 100000, Missing),
      Fetched(MatchInvoicePool[3], 50000, Missing),
      Fetched(MatchInvoicePool[4], 50000, Missing),
      Fetched(MatchInvoicePool[1], 0, Missing),
      Fetched(MatchInvoicePool[2], 100000, IsoDate(3))>>

\* all_invoices.sort(key=created_date, reverse=True): stable, newest first
RECURSIVE sort_by_created_date(_)
sort_by_created_date(all_invoices) ==
    IF all_invoices = <<>> THEN <<>>
    ELSE TheOne({SubSeq(rest, 1, k) \o <<Head(all_invoices)>> \o SubSeq(rest, k + 1, Len(rest)) :
                    <<rest, k>> \in
                        {<<r, Cardinality({i \in 1..Len(r) :
                                r[i].created_date > Head(all_invoices).created_date})>> :
                            r \in {sort_by_created_date(Tail(all_invoices))}}})

\* HubSpotClient.get_invoices that returns every invoice it fetched
get_invoices_unfiltered(all_invoices) == sort_by_created_date(all_invoices)

\* HubSpotClient.get_invoices: the invoices with something left to pay and no payment date
get_invoices(all_invoices) ==
    SelectSeq(sort_by_created_date(all_invoices),
              LAMBDA inv : inv.balance_due > 0 /\ inv.payment_date = Missing)

\* ----------------------------------------------------- matcher memory
\* ReconciliationEngine.learn_association that keeps the first company of a key
learn_association_first_wins(self, transaction_name, company_name) ==
    TheOne({IF \E a \in self.associations : a[1] = trans_clean THEN self
            ELSE [self EXCEPT !.associations = @ \cup {<<trans_clean, comp_clean>>}] :
               trans_clean \in {clean_company_name(transaction_name)},
               comp_clean \in {clean_company_name(company_name)}})

\* ReconciliationEngine.learn_association
learn_association(self, transaction_name, company_name) ==
    TheOne({[self EXCEPT !.associations =
                {a \in self.associations : a[1] # trans_clean}
                    \cup {<<trans_clean, comp_clean>>}] :
               trans_clean \in {clean_company_name(transaction_name)},
               comp_clean \in {clean_company_name(company_name)}})

\* ReconciliationEngine.is_match_denied, reading the latest denial only
is_match_denied_latest(self, transaction_description, invoice_id) ==
    LET n == Len(self.denied_matches)
    IN  /\ n > 0
        /\ self.denied_matches[n].transaction_description = transaction_description
        /\ self.denied_matches[n].invoice_id = invoice_id

\* ReconciliationEngine.is_match_denied, banning the transaction outright
is_match_denied_any_invoice(self, transaction_description, invoice_id) ==
    \E i \in 1..Len(self.denied_matches) :
        self.denied_matches[i].transaction_description = transaction_description

\* ReconciliationEngine.is_match_denied
is_match_denied(self, transaction_description, invoice_id) ==
    \E i \in 1..Len(self.denied_matches) :
        /\ self.denied_matches[i].transaction_description = transaction_description
        /\ self.denied_matches[i].invoice_id = invoice_id

\* ReconciliationEngine.deny_match that stamps a repeated denial anew
deny_match_restamped(self, transaction_description, invoice_id, t) ==
    LET Same(d) == /\ d.transaction_description = transaction_description
                   /\ d.invoice_id = invoice_id
    IN  IF \E i \in 1..Len(self.denied_matches) : Same(self.denied_matches[i])
        THEN [self EXCEPT !.denied_matches =
                [i \in 1..Len(@) |-> IF Same(@[i]) THEN [@[i] EXCEPT !.denied_at = t]
                                      ELSE @[i]]]
        ELSE [self EXCEPT !.denied_matches =
                Append(@, [transaction_description |-> transaction_description,
                           invoice_id |-> invoice_id,
                           denied_at |-> t])]

\* ReconciliationEngine.deny_match at time t
deny_match(self, transaction_description, invoice_id, t) ==
    IF \E i \in 1..Len(self.denied_matches) :
            /\ self.denied_matches[i].transaction_description = transaction_description
            /\ self.denied_matches[i].invoice_id = invoice_id
    THEN self
    ELSE [self EXCEPT !.denied_matches =
            Append(@, [transaction_description |-> transaction_description,
                       invoice_id |-> invoice_id,
                       denied_at |-> t])]

\* ReconciliationEngine.is_transaction_accounted, reading the latest entry only
is_transaction_accounted_latest(self, transaction_description) ==
    LET n == Len(self.accounted_transactions)
    IN  /\ n > 0
        /\ self.accounted_transactions[n].transaction_description = transaction_description

\* ReconciliationEngine.is_transaction_accounted
is_transaction_accounted(self, transaction_description) ==
    \E i \in 1..Len(self.accounted_transactions) :
        self.accounted_transactions[i].transaction_description = transaction_description

\* ReconciliationEngine.mark_transaction_accounted at time t
mark_transaction_accounted(self, transaction_description, transaction_id, amount, t) ==
    IF \E i \in 1..Len(self.accounted_transactions) :
          self.accounted_transactions[i].transaction_description = transaction_description
    THEN self
    ELSE [self EXCEPT !.accounted_transactions =
            Append(@, [transaction_id |-> transaction_id,
                       transaction_description |-> transaction_description,
                       amount |-> amount,
                       accounted_at |-> t])]

\* ----------------------------------------------------- matcher scores
Abs(x) == IF x < 0 THEN 0 - x ELSE x

\* the strings the drawn transactions and invoices carry
ScoreDescriptions == {"GLOBEX", "GLOBEX WIRE", "GLOBEX 1001", "acme pmt 1003"}
MatchDescriptions ==
    {TransactionPool[i].description : i \in 1..Len(TransactionPool)} \cup ScoreDescriptions
MatchCompanies == {MatchInvoicePool[i].company_name : i \in 1..Len(MatchInvoicePool)}
MatchNumbers == {MatchInvoicePool[i].number : i \in 1..Len(MatchInvoicePool)}

\* _clean_company_name of every string the model holds, computed once
CleanedTable == {<<s, clean_company_name(s)>> : s \in Strings}
Cleaned(name) == (CHOOSE p \in CleanedTable : p[1] = name)[2]

\* ReconciliationEngine._check_memory
check_memory(self, transaction, invoice) ==
    IF \E trans_desc \in {Cleaned(transaction.description)},
          company_name \in {Cleaned(invoice.company_name)}, a \in self.associations :
            IsSubstring(a[1], trans_desc) /\ IsSubstring(a[2], company_name)
    THEN 100 ELSE 0

\* ReconciliationEngine._match_amount_smart (amounts in cents)
match_amount_smart(transaction, invoice) ==
    LET trans_amount == Abs(transaction.amount)
        inv_amount == invoice.amount
        diff == Abs(trans_amount - inv_amount)
        \* diff_percent < k, where diff_percent = (diff / inv_amount) * 100
        Within(k) == IF inv_amount > 0 THEN diff * 100 < k * inv_amount ELSE TRUE
    IN  IF trans_amount = 0 \/ inv_amount = 0 THEN 0
        ELSE IF diff < 100 THEN 100
        ELSE IF Within(1) THEN 95
        ELSE IF Within(2) THEN 85
        ELSE IF Within(5) THEN 70
        ELSE IF Within(10) THEN 50
        ELSE 0

\* ReconciliationEngine._match_names_smart up to tier 1: 0 for an empty name,
\* 100 for the exact substring, -1 when the fuzzy tiers decide
names_exact(description, company) ==
    TheOne({IF cleaned = <<>> \/ company_name = <<>> THEN 0
            ELSE TheOne({IF Len(company_core) >= 5 /\ IsSubstring(company_core, trans_desc)
                         THEN 100 ELSE -1 :
                            trans_desc \in {JoinSplit(RemoveProcessors(cleaned, 1))},
                            company_core \in {extract_company_core(company_name)}}) :
               cleaned \in {Cleaned(description)}, company_name \in {Cleaned(company)}})

\* names_exact of every drawn pair, computed once
NamesExactTable ==
    {<<d, c, names_exact(d, c)>> : d \in MatchDescriptions, c \in MatchCompanies}

\* ReconciliationEngine._match_names_smart; fuzzy is what tiers 2 to 4, which
\* call the fuzzywuzzy library, return for each (description, company) pair
match_names_smart(transaction, invoice, fuzzy) ==
    LET exact == (CHOOSE p \in NamesExactTable :
                     p[1] = transaction.description /\ p[2] = invoice.company_name)[3]
    IN  IF exact >= 0 THEN exact
        ELSE fuzzy[<<transaction.description, invoice.company_name>>]

\* ReconciliationEngine._match_dates (dates in days)
match_dates(transaction, invoice) ==
    IF transaction.date \notin Int \/ invoice.created_date \notin Int THEN 20
    ELSE LET days_diff == transaction.date - invoice.created_date
         IN  IF days_diff < 0 THEN 0
             ELSE IF days_diff <= 30 THEN 100
             ELSE IF days_diff <= 60 THEN 90
             ELSE IF days_diff <= 90 THEN 80
             ELSE IF days_diff <= 120 THEN 60
             ELSE 30

\* ReconciliationEngine._match_invoice_number on the two strings
number_in_description(number, description) ==
    IF number = None \/ number = "" THEN 0
    ELSE TheOne({IF IsSubstring(invoice_num, trans_desc) THEN 100 ELSE 0 :
                    invoice_num \in {Upper(number)}, trans_desc \in {Upper(description)}})

\* number_in_description of every drawn pair, computed once
NumberTable ==
    {<<n, d, number_in_description(n, d)>> : n \in MatchNumbers, d \in MatchDescriptions}

\* ReconciliationEngine._match_invoice_number
match_invoice_number(transaction, invoice) ==
    (CHOOSE p \in NumberTable : p[1] = invoice.number /\ p[2] = transaction.description)[3]

\* ReconciliationEngine._calculate_confidence_smart with the fast path open to
\* an amount score of 85
calculate_confidence_smart_from_85(memory_match, amount_match, name_match, date_match, invoice_num_match, processor) ==
    IF name_match >= 95 /\ amount_match >= 85
    THEN LET boosted == 8500 + name_match * 10 + amount_match * 5
         IN  IF boosted > 10000 THEN 10000 ELSE boosted
    ELSE LET score ==
                 IF memory_match > 0
                 THEN memory_match * 50 + amount_match * 30 + name_match * 10
                      + date_match * 5 + invoice_num_match * 5
                 ELSE amount_match * 35 + name_match * 40 + date_match * 15
                      + invoice_num_match * 10
         IN  IF processor = None THEN score
             ELSE IF score + 500 > 10000 THEN 10000 ELSE score + 500

\* ReconciliationEngine._calculate_confidence_smart; the result is 100 times
\* the confidence, the arguments are the scores themselves
calculate_confidence_smart(memory_match, amount_match, name_match, date_match, invoice_num_match, processor) ==
    IF name_match >= 95 /\ amount_match >= 90
    THEN LET boosted == 8500 + name_match * 10 + amount_match * 5
         IN  IF boosted > 10000 THEN 10000 ELSE boosted
    ELSE LET score ==
                 IF memory_match > 0
                 THEN memory_match * 50 + amount_match * 30 + name_match * 10
                      + date_match * 5 + invoice_num_match * 5
                 ELSE amount_match * 35 + name_match * 40 + date_match * 15
                      + invoice_num_match * 10
         IN  IF processor = None THEN score
             ELSE IF score + 500 > 10000 THEN 10000 ELSE score + 500

\* ----------------------------------------------------- matching
\* detect_processor of every drawn description, computed once
ProcessorTable ==
    {<<d, detect_processor([description |-> d])>> : d \in MatchDescriptions}

processor_of(transaction) ==
    (CHOOSE p \in ProcessorTable : p[1] = transaction.description)[2]

\* ReconciliationEngine._find_best_match: the confidence of one pairing
confidence_of(self, transaction, invoice, fuzzy) ==
    calculate_confidence_smart(
        check_memory(self, transaction, invoice),
        match_amount_smart(transaction, invoice),
        match_names_smart(transaction, invoice, fuzzy),
        match_dates(transaction, invoice),
        match_invoice_number(transaction, invoice),
        processor_of(transaction))

\* ReconciliationEngine._find_best_match: the confidence of every invoice on offer
RECURSIVE confidences(_, _, _, _)
confidences(self, transaction, invs, fuzzy) ==
    IF invs = <<>> THEN <<>>
    ELSE <<confidence_of(self, transaction, Head(invs), fuzzy)>>
         \o confidences(self, transaction, Tail(invs), fuzzy)

\* ReconciliationEngine._find_best_match that takes the first candidate, unsorted
best_of_first(self, transaction, invs, conf, processor) ==
    LET candidates == {i \in 1..Len(invs) :
                          /\ ~is_match_denied(self, transaction.description, invs[i].id)
                          /\ conf[i] > 5000}
        \* candidates[0] of the unsorted list
        best == CHOOSE i \in candidates : \A j \in candidates : i <= j
    IN  IF candidates = {} THEN <<>>
        ELSE <<[transaction_id |-> transaction.transaction_id,
                transaction_date |-> transaction.date,
                transaction_amount |-> transaction.amount,
                transaction_description |-> transaction.description,
                invoice_id |-> invs[best].id,
                invoice_number |-> invs[best].number,
                invoice_amount |-> invs[best].amount,
                invoice_date |-> invs[best].created_date,
                company_name |-> invs[best].company_name,
                confidence |-> conf[best],
                processor |-> IF processor = None THEN "direct" ELSE processor,
                expected_amount |-> invs[best].amount]>>

\* ReconciliationEngine._find_best_match, from the sort on: <<>> for None,
\* else <<the match>>; conf[i] is the confidence of invs[i]
best_of(self, transaction, invs, conf, processor) ==
    LET candidates == {i \in 1..Len(invs) :
                          /\ ~is_match_denied(self, transaction.description, invs[i].id)
                          /\ conf[i] > 5000}
        \* candidates.sort(key=confidence, reverse=True) is stable; candidates[0]
        best == CHOOSE i \in candidates :
                    \A j \in candidates :
                        conf[i] > conf[j] \/ (conf[i] = conf[j] /\ i <= j)
    IN  IF candidates = {} THEN <<>>
        ELSE <<[transaction_id |-> transaction.transaction_id,
                transaction_date |-> transaction.date,
                transaction_amount |-> transaction.amount,
                transaction_description |-> transaction.description,
                invoice_id |-> invs[best].id,
                invoice_number |-> invs[best].number,
                invoice_amount |-> invs[best].amount,
                invoice_date |-> invs[best].created_date,
                company_name |-> invs[best].company_name,
                confidence |-> conf[best],
                processor |-> IF processor = None THEN "direct" ELSE processor,
                expected_amount |-> invs[best].amount]>>

\* ReconciliationEngine._find_best_match
find_best_match(self, transaction, invs, fuzzy) ==
    TheOne({best_of(self, transaction, offered, conf, processor) :
               offered \in {invs}, processor \in {processor_of(transaction)},
               conf \in {confidences(self, transaction, invs, fuzzy)}})

\* match_transactions_to_invoices: the status filter
is_unpaid(inv) ==
    Upper(inv.status) \in {<<"U", "N", "P", "A", "I", "D">>, <<"O", "P", "E", "N">>,
                           <<"O", "U", "T", "S", "T", "A", "N", "D", "I", "N", "G">>, <<>>}

\* match_transactions_to_invoices: available_invoices, matched ones kept
available_invoices_all(unpaid_invoices, matched_invoices) == unpaid_invoices

\* match_transactions_to_invoices: available_invoices
available_invoices(unpaid_invoices, matched_invoices) ==
    SelectSeq(unpaid_invoices, LAMBDA inv : inv.id \notin matched_invoices)

\* match_transactions_to_invoices: the loop over the transactions
RECURSIVE match_loop(_, _, _, _, _, _, _)
match_loop(self, txs, unpaid_invoices, confidence_threshold, fuzzy, found, matched_invoices) ==
    IF txs = <<>> THEN found
    ELSE LET transaction == Head(txs)
         IN  IF \/ transaction.amount <= 0
                \/ ~transaction.is_credit
                \/ is_transaction_accounted(self, transaction.description)
             THEN match_loop(self, Tail(txs), unpaid_invoices, confidence_threshold,
                             fuzzy, found, matched_invoices)
             ELSE TheOne(
                 {IF best_match # <<>> /\ best_match[1].confidence >= confidence_threshold
                  THEN match_loop(self, Tail(txs), unpaid_invoices, confidence_threshold,
                                  fuzzy, Append(found, best_match[1]),
                                  matched_invoices \cup {best_match[1].invoice_id})
                  ELSE match_loop(self, Tail(txs), unpaid_invoices, confidence_threshold,
                                  fuzzy, found, matched_invoices) :
                     best_match \in
                         {find_best_match(self, transaction,
                              available_invoices(unpaid_invoices, matched_invoices), fuzzy)}})

\* ReconciliationEngine.match_transactions_to_invoices
match_transactions_to_invoices(self, txs, invs, confidence_threshold, fuzzy) ==
    match_loop(self, txs, SelectSeq(invs, is_unpaid), confidence_threshold, fuzzy, <<>>, {})

\* ----------------------------------------------------- matcher runs
\* deny_match, mark_transaction_accounted and learn_association each skip or
\* overwrite what memory already holds, so the drawn values bound the memory.
MatchInvoiceLists ==
    {[i \in 1..Len(ix) |-> HubSpotPool[ix[i]]] :
        ix \in {<<1, 2>>, <<2, 1, 3>>, <<4, 1, 1>>, <<5, 2>>, <<6, 3>>}}

TransactionLists ==
    {[i \in 1..Len(ix) |-> TransactionPool[ix[i]]] :
        ix \in {<<1, 2>>, <<1, 1>>, <<3, 2, 1>>, <<4, 3>>}}

ThresholdsDrawn == {0, 7000}

\* what the fuzzy tiers may return for the pairs the exact tier leaves open
FuzzyDrawn == {0, 98}
FuzzyPairs == {<<"GLOBEX WIRE", "Acme LLC">>, <<"acme pmt 1003", "Globex">>,
               <<"acme pmt 1003", "Acme LLC">>}

DeniedDrawn == {<<"GLOBEX WIRE", "inv1">>, <<"GLOBEX WIRE", "inv2">>,
                <<"acme pmt 1003", "inv3">>}

AssociationsDrawn == {<<"ACME PMT", "Globex">>}

\* POST /deny
DenyMatch ==
    /\ \E d \in DeniedDrawn :
        /\ memory' = deny_match(memory, d[1], d[2], now)
        /\ denied_calls' = denied_calls \cup {d}
    /\ match_in' = NoCall
    /\ matches' = <<>>
    /\ UNCHANGED <<engine_vars, invoice_vars, message_vars, case_vars>>

\* POST /mark-accounted
MarkAccounted ==
    /\ \E i \in 1..Len(TransactionPool) :
        memory' = mark_transaction_accounted(memory, TransactionPool[i].description,
                      TransactionPool[i].transaction_id, TransactionPool[i].amount, now)
    /\ match_in' = NoCall
    /\ matches' = <<>>
    /\ UNCHANGED <<engine_vars, invoice_vars, message_vars, denied_calls, case_vars>>

\* DELETE /accounted-transactions/{transaction_id}
RemovedIdsDrawn == {"t1", "t3", "GLOBEX WIRE"}

delete_accounted_transaction(accounted, transaction_id) ==
    LET Kept(t) == /\ t.transaction_id # transaction_id
                   /\ t.transaction_description # transaction_id
    IN  SelectSeq(accounted, Kept)

UnmarkAccounted ==
    /\ \E transaction_id \in RemovedIdsDrawn :
        LET updated == delete_accounted_transaction(memory.accounted_transactions,
                                                    transaction_id)
        IN  /\ Len(updated) < Len(memory.accounted_transactions)
            /\ memory' = [memory EXCEPT !.accounted_transactions = updated]
    /\ match_in' = NoCall
    /\ matches' = <<>>
    /\ UNCHANGED <<engine_vars, invoice_vars, message_vars, denied_calls, case_vars>>

\* POST /learn
LearnAssociation ==
    /\ \E a \in AssociationsDrawn : memory' = learn_association(memory, a[1], a[2])
    /\ match_in' = NoCall
    /\ matches' = <<>>
    /\ UNCHANGED <<engine_vars, invoice_vars, message_vars, denied_calls, case_vars>>

\* the latest call has returned and memory has not changed since
Called == match_in.confidence_threshold >= 0

\* POST /match: the matcher is run on the transactions of the bank and on the
\* invoices get_invoices returns.  The
\* result is a function of the arguments and of memory alone, so one call is
\* followed for each state of memory.
Match ==
    /\ ~Called
    /\ \E txs \in TransactionLists, fetched \in MatchInvoiceLists,
          threshold \in ThresholdsDrawn, fuzzy \in [FuzzyPairs -> FuzzyDrawn] :
        /\ match_in' = [transactions |-> txs, fetched |-> fetched,
                        invoices |-> get_invoices(fetched),
                        confidence_threshold |-> threshold, fuzzy |-> fuzzy]
        /\ matches' = match_transactions_to_invoices(memory, txs, match_in'.invoices,
                                                     threshold, fuzzy)
    /\ UNCHANGED <<engine_vars, invoice_vars, message_vars, memory, denied_calls, case_vars>>

InitMatch ==
    /\ IdleMatcher
    /\ IdleCase
    /\ config = DefaultConfig
    /\ IdleEngine
    /\ IdleInvoice
    /\ IdleMessage

NextMatch == DenyMatch \/ MarkAccounted \/ UnmarkAccounted \/ LearnAssociation \/ Match

SpecMatch == InitMatch /\ [][NextMatch]_vars

\* ------------------------------------------------------------- C1
\* what identifies the transaction a match was made for
MatchKey(m) ==
    <<m.transaction_id, m.transaction_description, m.transaction_amount, m.transaction_date>>

TransactionKey(t) == <<t.transaction_id, t.description, t.amount, t.date>>

\* a is b with some elements left out
RECURSIVE IsSubsequence(_, _)
IsSubsequence(a, b) ==
    IF a = <<>> THEN TRUE
    ELSE IF b = <<>> THEN FALSE
    ELSE IF Head(a) = Head(b) THEN IsSubsequence(Tail(a), Tail(b))
    ELSE IsSubsequence(a, Tail(b))

\* C1: in the list a call of match_transactions_to_invoices returns, no invoice
\* id appears twice and every element of the transaction list has at most one
\* match (the matches, read as transactions, are the input list with elements
\* left out), whatever the lists, the threshold and the memory.
C1_AtMostOneMatch ==
    /\ \A i, j \in 1..Len(matches) :
        i # j => matches[i].invoice_id # matches[j].invoice_id
    /\ IsSubsequence([i \in 1..Len(matches) |-> MatchKey(matches[i])],
                     [i \in 1..Len(match_in.transactions) |->
                         TransactionKey(match_in.transactions[i])])

\* two transactions with the same best invoice were both matched
C1_Witness ==
    /\ Called
    /\ Len(matches) = 2
    /\ matches[1].transaction_description = matches[2].transaction_description
    /\ matches[1].company_name = matches[2].company_name
    /\ matches[1].invoice_id = "inv1"
    /\ matches[2].invoice_id = "inv2"

\* ------------------------------------------------------------- C2
\* C2: a list returned by match_transactions_to_invoices holds no match whose
\* (transaction description, invoice id) pair deny_match was called with
\* before, at any threshold, 0 included.
C2_DeniedNeverReturned ==
    \A i \in 1..Len(matches) :
        <<matches[i].transaction_description, matches[i].invoice_id>> \notin denied_calls

\* at threshold 0, a transaction whose pairing with inv1 was denied, and was
\* followed by another denial, is matched to another invoice although inv1 was on offer
C2_Witness ==
    /\ Called
    /\ match_in.confidence_threshold = 0
    /\ Len(memory.denied_matches) = 2
    /\ memory.denied_matches[1] =
           [transaction_description |-> "GLOBEX WIRE", invoice_id |-> "inv1", denied_at |-> 0]
    /\ match_in.invoices[1].id = "inv1"
    /\ \E i \in 1..Len(matches) :
        /\ matches[i].transaction_description = "GLOBEX WIRE"
        /\ matches[i].invoice_id = "inv2"


\* ------------------------------------------------ one pairing scored
\* the transactions, invoices and memories one pairing is drawn from
ScoreAmounts == {100000, 99500, 98450, 96000, 91000, 50000}
ScoreDates == {5, 45}
ScoreMemories == {DefaultMemory, learn_association(DefaultMemory, "GLOBEX", "Globex")}

ScoreFuzzy(f) == [p \in MatchDescriptions \X MatchCompanies |-> f]

\* _find_best_match, lines 447 to 456: the scores of one pairing and their blend
scores_of(self, transaction, invoice, fuzzy) ==
    TheOne({[memory_match |-> m, amount_match |-> a, name_match |-> n, date_match |-> d,
             invoice_num_match |-> i, processor |-> p,
             confidence |-> calculate_confidence_smart(m, a, n, d, i, p)] :
               m \in {check_memory(self, transaction, invoice)},
               a \in {match_amount_smart(transaction, invoice)},
               n \in {match_names_smart(transaction, invoice, fuzzy)},
               d \in {match_dates(transaction, invoice)},
               i \in {match_invoice_number(transaction, invoice)},
               p \in {processor_of(transaction)}})

Scored == score_out # NoScore

Score ==
    /\ ~Scored
    /\ score_out' = scores_of(score_in.self, score_in.transaction, score_in.invoice,
                              ScoreFuzzy(score_in.fuzzy))
    /\ UNCHANGED <<engine_vars, invoice_vars, message_vars, matcher_vars, score_in,
                   writer_vars, defect_out, memory_call, learn_log, late_vars>>

InitScore ==
    /\ InitEngine
    /\ IdleInvoice
    /\ IdleMessage
    /\ IdleMatcher
    /\ \E d \in ScoreDescriptions, a \in ScoreAmounts, t \in ScoreDates,
          i \in 1..Len(MatchInvoicePool), self \in ScoreMemories, f \in FuzzyDrawn :
            score_in = [self |-> self, transaction |-> BankTransaction("t1", d, a, t, TRUE),
                        invoice |-> MatchInvoicePool[i], fuzzy |-> f]
    /\ score_out = NoScore
    /\ IdleWriters
    /\ IdleDefects
    /\ IdleMemoryCall
    /\ IdleLearn
    /\ IdleLate

NextScore == Score

SpecScore == InitScore /\ [][NextScore]_vars

\* the pairing of C11: $984.50 against $1000.00, the company name an exact
\* substring of the description, 5 days after the invoice, nothing learned
C11_Scenario ==
    /\ Scored
    /\ score_in.transaction.amount = 98450
    /\ score_in.invoice.amount = 100000
    /\ score_out.name_match = 100
    /\ score_in.transaction.date - score_in.invoice.created_date = 5
    /\ score_in.self.associations = {}

\* C11 as stated: the pairing of $984.50 against $1000.00 with name score 100
\* and date score 100 and no learned association gets a confidence of at
\* least 90.
C11_AtLeast90 == C11_Scenario => score_out.confidence >= 9000

\* C11 amended: that pairing scores amount 85, name 100 and date 100, misses
\* the fast path (which needs an amount score of 90) and gets the weighted
\* blend 84.75, plus 10 when the invoice number is in the description, plus 5
\* when a payment processor is detected: it reaches 90 exactly when the
\* invoice number is in the description.
C11_BlendedBelowFastPath ==
    C11_Scenario =>
        /\ score_out.amount_match = 85
        /\ score_out.date_match = 100
        /\ score_out.memory_match = 0
        /\ score_out.confidence =
               8475 + 10 * score_out.invoice_num_match
                    + (IF score_out.processor = None THEN 0 ELSE 500)
        /\ score_out.confidence >= 9000 <=> score_out.invoice_num_match = 100

C11_Witness ==
    /\ C11_Scenario
    /\ score_out.invoice_num_match = 0
    /\ score_out.processor = None
    /\ score_out.confidence = 8475


\* the descriptions on the accounted list
AccountedDescriptions ==
    {memory.accounted_transactions[i].transaction_description :
        i \in 1..Len(memory.accounted_transactions)}

\* C12: a call of match_transactions_to_invoices returns no Match for a
\* transaction whose description is on the accounted list at the time of the
\* call, whatever the invoices and the threshold.
C12_AccountedNeverMatched ==
    Called => \A k \in 1..Len(matches) :
                  matches[k].transaction_description \notin AccountedDescriptions

\* an accounted description among the credits of the call, with an unpaid
\* invoice of its company on offer, while another transaction of the call matched
C12_Witness ==
    /\ Called
    /\ matches # <<>>
    /\ "GLOBEX WIRE" \in AccountedDescriptions
    /\ \E i \in 1..Len(match_in.transactions) :
          /\ match_in.transactions[i].description = "GLOBEX WIRE"
          /\ match_in.transactions[i].is_credit
    /\ \E j \in 1..Len(match_in.invoices) :
          /\ match_in.invoices[j].company_name = "Globex"
          /\ is_unpaid(match_in.invoices[j])


\* ------------------------------------------------ two engines, one file
\* the records on a list
Records(history) == {history[i] : i \in 1..Len(history)}

\* KlausEngine.log_communication (and _save_history) of one engine: the record
\* joins that engine's list and the whole list replaces the file
log_communication(history, invoice_id, company_name, method, message_type, sent_at, approved_by) ==
    Append(history, [invoice_id |-> invoice_id, company_name |-> company_name,
                     method |-> method, message_type |-> message_type,
                     sent_at |-> sent_at, approved_by |-> approved_by])

\* the send-email and call routes of main.py and klaus_integration.py
LogBy(w) ==
    /\ now < MaxWrites
    /\ \E i \in 1..2, method \in {"email", "phone"} :
        /\ engines' = [engines EXCEPT ![w] =
                log_communication(@, InvoicePool[i].id, InvoicePool[i].company_name,
                                  method, "collection", now,
                                  IF w = "main" THEN "manual" ELSE None)]
        /\ logged' = logged \cup {engines'[w][Len(engines'[w])]}
    /\ history_file' = engines'[w]
    /\ now' = now + 1
    /\ UNCHANGED <<config, communication_history, pending_approvals, invoices, analysis,
                   fresh, repeated>>
    /\ UNCHANGED <<invoice_vars, message_vars, matcher_vars, score_vars, defect_out,
                   memory_call, learn_log, late_vars>>

LogMain == LogBy("main")

LogIntegration == LogBy("integration")

\* KlausEngine.__init__ of a process that starts again: _load_history
Construct ==
    /\ \E w \in Writers :
        /\ engines[w] # history_file
        /\ engines' = [engines EXCEPT ![w] = history_file]
    /\ UNCHANGED <<engine_vars, logged>>
    /\ UNCHANGED <<invoice_vars, message_vars, matcher_vars, score_vars, defect_out,
                   memory_call, learn_log, late_vars>>

InitWriters ==
    /\ InitEngine
    /\ IdleInvoice
    /\ IdleMessage
    /\ IdleMatcher
    /\ IdleScore
    /\ IdleWriters
    /\ IdleDefects
    /\ IdleMemoryCall
    /\ IdleLearn
    /\ IdleLate

NextWriters == LogMain \/ LogIntegration \/ Construct

SpecWriters == InitWriters /\ [][NextWriters]_vars

\* C13: the persisted history holds every record log_communication wrote,
\* whichever of the two engines wrote it and in whatever order they ran.
C13_EveryLoggedRecordPersisted == logged \subseteq Records(history_file)


\* ------------------------------------------------ defective input
\* an exception that leaves the call
Raised == [raised |-> TRUE]

\* analyze_invoice, line 176: float(invoice.get('balance_due', 0)) raises on
\* a value that is not a number
balance_raises(invoice) ==
    /\ ~IsNumber(invoice.balance_due)
    /\ invoice.balance_due # Missing

\* analyze_invoice, line 216: datetime.fromisoformat(last_contact['sent_at'])
\* stands outside any try and is reached whenever the invoice was contacted
sent_at_raises(self, invoice) ==
    LET previous_contacts == get_contact_history(self, invoice.id)
        contact_count == Len(previous_contacts)
    IN  /\ contact_count > 0
        /\ ~IsIsoDate(previous_contacts[contact_count].sent_at)

\* the invoice as analyze_invoice reads it when nothing raises: a missing
\* balance is 0, and a due date that is missing or does not parse gives
\* days_overdue = 0, as a due date of today does
read_invoice(invoice, t) ==
    [invoice EXCEPT
        !.balance_due = IF IsNumber(@) THEN @.number ELSE 0,
        !.due_date = IF IsIsoDate(@) THEN @.iso ELSE t]

\* the history as analyze_invoice reads it when nothing raises: the sent_at
\* of a record that is never parsed is not looked at
read_history(history) ==
    [i \in 1..Len(history) |->
        [history[i] EXCEPT !.sent_at = IF IsIsoDate(@) THEN @.iso ELSE 0]]

\* KlausEngine.analyze_overdue_invoices on input that may be defective
analyze_overdue_invoices_or_raise(self, invs, t) ==
    IF \E i \in 1..Len(invs) : balance_raises(invs[i]) \/ sent_at_raises(self, invs[i])
    THEN Raised
    ELSE analyze_overdue_invoices(
            [self EXCEPT !.communication_history = read_history(@)],
            [i \in 1..Len(invs) |-> read_invoice(invs[i], t)], t)

\* sound and defective amounts, due dates and timestamps
DefectBalances == {Number(1000), Text("N/A"), Missing}
DefectDueDates == {IsoDate(-10), Text("soon"), Missing}
DefectSentAts == {IsoDate(-8), Text("yesterday")}

DefectInvoices ==
    {[InvoicePool[i] EXCEPT !.balance_due = b, !.due_date = d] :
        i \in 1..2, b \in DefectBalances, d \in DefectDueDates}

\* a sound invoice in raw form
Raw(invoice) ==
    [invoice EXCEPT !.balance_due = Number(@), !.due_date = IsoDate(@)]

\* the invoice lists of a call: a drawn invoice alone, before a sound one or after one
DefectInvoiceLists ==
    {<<a>> : a \in DefectInvoices} \cup
    {<<a, Raw(InvoicePool[3])>> : a \in DefectInvoices} \cup
    {<<Raw(InvoicePool[4]), a>> : a \in DefectInvoices}

\* the history of a call: empty, or one contact of inv1
DefectHistories ==
    {<<>>} \cup
    {<<[invoice_id |-> "inv1", company_name |-> "Acme", method |-> "email",
        message_type |-> "reminder", sent_at |-> at, approved_by |-> None]>> :
        at \in DefectSentAts}

AnalyzeDefective ==
    /\ defect_out = NotRun
    /\ defect_out' = analyze_overdue_invoices_or_raise(Self, invoices, now)
    /\ UNCHANGED <<engine_vars, invoice_vars, message_vars, matcher_vars, score_vars,
                   writer_vars, memory_call, learn_log, late_vars>>

InitDefects ==
    /\ now = 0
    /\ config \in EngineConfigs
    /\ communication_history \in DefectHistories
    /\ history_file = communication_history
    /\ pending_approvals = <<>>
    /\ invoices \in DefectInvoiceLists
    /\ analysis = NoAnalysis
    /\ fresh = FALSE
    /\ repeated = FALSE
    /\ IdleInvoice
    /\ IdleMessage
    /\ IdleMatcher
    /\ IdleScore
    /\ IdleWriters
    /\ IdleDefects
    /\ IdleMemoryCall
    /\ IdleLearn
    /\ IdleLate

NextDefects == AnalyzeDefective

SpecDefects == InitDefects /\ [][NextDefects]_vars

\* C14: no exception leaves analyze_overdue_invoices, whatever data-quality
\* defects the invoices and the communication history carry.
C14_NoExceptionPropagates == defect_out # Raised


\* ------------------------------------------------------------- C15
\* the invoices of the last analyze_overdue_invoices call whose company is blacklisted
BlacklistedInvoices ==
    {i \in 1..Len(invoices) : invoices[i].company_name \in config.blacklisted_contacts}

\* C15: every overdue invoice of a blacklisted company that was analyzed is
\* among the invoices of an item of pending_approvals in the result of
\* analyze_overdue_invoices.
C15_BlacklistedSurfaced ==
    \A i \in BlacklistedInvoices :
        \E k \in 1..Len(analysis.pending_approvals) :
            \E j \in 1..Len(analysis.pending_approvals[k].invoices) :
                analysis.pending_approvals[k].invoices[j].invoice_id = invoices[i].id


\* ------------------------------------------------------------- C16
\* the contact groups of the last result that go out without approval
AutonomousActions ==
    {analysis.autonomous_emails[k] : k \in 1..Len(analysis.autonomous_emails)}
        \cup {analysis.autonomous_calls[k] : k \in 1..Len(analysis.autonomous_calls)}

\* C16: every contact group flagged is_vip has requires_approval = true, so
\* no group in autonomous_emails or autonomous_calls is flagged is_vip.
C16_VipAlwaysApproved ==
    /\ \A a \in AutonomousActions : ~a.is_vip
    /\ \A k \in 1..Len(analysis.pending_approvals) :
          analysis.pending_approvals[k].is_vip => analysis.pending_approvals[k].requires_approval


\* ------------------------------------------------------------- C17
\* the (description, invoice id) pairs on the denied list
DeniedPairs ==
    {<<memory.denied_matches[i].transaction_description, memory.denied_matches[i].invoice_id>> :
        i \in 1..Len(memory.denied_matches)}

\* the matcher run with no denial on record, the invoices of the denied pairs
\* taken away from the candidates of the transactions they were denied for
RECURSIVE undenied_loop(_, _, _, _, _, _, _, _)
undenied_loop(self, denied, txs, unpaid_invoices, confidence_threshold, fuzzy, found, matched_invoices) ==
    IF txs = <<>> THEN found
    ELSE LET transaction == Head(txs)
             offered == SelectSeq(unpaid_invoices,
                            LAMBDA inv : /\ inv.id \notin matched_invoices
                                         /\ <<transaction.description, inv.id>> \notin denied)
         IN  IF \/ transaction.amount <= 0
                \/ ~transaction.is_credit
                \/ transaction.description \in AccountedDescriptions
             THEN undenied_loop(self, denied, Tail(txs), unpaid_invoices,
                                confidence_threshold, fuzzy, found, matched_invoices)
             ELSE TheOne(
                 {IF best_match # <<>> /\ best_match[1].confidence >= confidence_threshold
                  THEN undenied_loop(self, denied, Tail(txs), unpaid_invoices,
                                     confidence_threshold, fuzzy, Append(found, best_match[1]),
                                     matched_invoices \cup {best_match[1].invoice_id})
                  ELSE undenied_loop(self, denied, Tail(txs), unpaid_invoices,
                                     confidence_threshold, fuzzy, found, matched_invoices) :
                     best_match \in {find_best_match(self, transaction, offered, fuzzy)}})

MatchesWithoutDenials ==
    undenied_loop([memory EXCEPT !.denied_matches = <<>>], DeniedPairs, match_in.transactions,
                  SelectSeq(match_in.invoices, is_unpaid), match_in.confidence_threshold,
                  match_in.fuzzy, <<>>, {})

\* C17: the result of match_transactions_to_invoices is the result the matcher
\* gives with no denial on record, except that for every denied pair (d, X)
\* invoice X is not among the candidates of the transactions described d;
\* other invoices stay open to d and X stays open to other descriptions.
C17_DenialBlocksOnlyItsPair == Called => matches = MatchesWithoutDenials

\* with (d, X) denied, a transaction described d is matched to another invoice
\* and a transaction described otherwise is matched to X
C17_Witness ==
    /\ Called
    /\ \E p \in DeniedPairs :
        /\ \E k \in 1..Len(matches) :
              /\ matches[k].transaction_description = p[1]
              /\ matches[k].invoice_id # p[2]
        /\ \E k \in 1..Len(matches) :
              /\ matches[k].transaction_description # p[1]
              /\ matches[k].invoice_id = p[2]


\* ------------------------------------------------ the lists of memory
\* POST /deny at the current time
DenyAt ==
    /\ \E d \in DeniedDrawn :
        /\ memory_call' =
              [recorded |-> <<d[1], d[2]>> \in DeniedPairs, before |-> memory]
        /\ memory' = deny_match(memory, d[1], d[2], now)
    /\ UNCHANGED <<engine_vars, invoice_vars, message_vars, match_in, matches, denied_calls,
                   score_vars, writer_vars, defect_out, learn_log, late_vars>>

\* POST /mark-accounted at the current time
MarkAccountedAt ==
    /\ \E i \in {1, 2, 3} :
        /\ memory_call' =
              [recorded |-> TransactionPool[i].description \in AccountedDescriptions,
               before |-> memory]
        /\ memory' = mark_transaction_accounted(memory, TransactionPool[i].description,
                          TransactionPool[i].transaction_id, TransactionPool[i].amount, now)
    /\ UNCHANGED <<engine_vars, invoice_vars, message_vars, match_in, matches, denied_calls,
                   score_vars, writer_vars, defect_out, learn_log, late_vars>>

\* time passes between two calls
TickMemory ==
    /\ now < MaxMemoryDay
    /\ now' = now + 1
    /\ UNCHANGED <<config, communication_history, history_file, pending_approvals,
                   invoices, analysis, fresh, repeated>>
    /\ UNCHANGED <<invoice_vars, message_vars, matcher_vars, case_vars>>

InitMemory ==
    /\ IdleMatcher
    /\ IdleCase
    /\ config = DefaultConfig
    /\ IdleEngine
    /\ IdleInvoice
    /\ IdleMessage

NextMemory == DenyAt \/ MarkAccountedAt \/ TickMemory

SpecMemory == InitMemory /\ [][NextMemory]_vars

\* C18: the denied list never holds two entries of one (description, invoice
\* id) pair, the accounted list never two entries of one description, and a
\* deny_match or mark_transaction_accounted call whose key was already
\* recorded leaves memory, timestamps included, as it was.
C18_Idempotent ==
    /\ \A i, j \in 1..Len(memory.denied_matches) :
          (/\ memory.denied_matches[i].transaction_description
                  = memory.denied_matches[j].transaction_description
           /\ memory.denied_matches[i].invoice_id = memory.denied_matches[j].invoice_id)
              => i = j
    /\ \A i, j \in 1..Len(memory.accounted_transactions) :
          memory.accounted_transactions[i].transaction_description
              = memory.accounted_transactions[j].transaction_description => i = j
    /\ memory_call.recorded => memory = memory_call.before

\* a denial and an accounted entry repeated on a later day: the entries of
\* day 0 are still the only ones
C18_Witness ==
    /\ memory_call.recorded
    /\ now > 0
    /\ Len(memory.denied_matches) = 1
    /\ memory.denied_matches[1].denied_at = 0
    /\ Len(memory.accounted_transactions) = 1
    /\ memory.accounted_transactions[1].accounted_at = 0


\* ------------------------------------------------ associations learned
\* the names POST /learn is called with
LearnedNames == {"Acme", "ACME", "GLOBEX"}
LearnedCompanies == {"Globex", "Terra", "Terra W", "Acme LLC"}

Learn ==
    /\ Len(learn_log) < MaxLearns
    /\ \E t \in LearnedNames, c \in LearnedCompanies :
        /\ memory' = learn_association(memory, t, c)
        /\ learn_log' = Append(learn_log, <<t, c>>)
    /\ UNCHANGED <<engine_vars, invoice_vars, message_vars, match_in, matches, denied_calls,
                   score_vars, writer_vars, defect_out, memory_call, late_vars>>

InitLearn ==
    /\ IdleMatcher
    /\ IdleCase
    /\ config = DefaultConfig
    /\ IdleEngine
    /\ IdleInvoice
    /\ IdleMessage

NextLearn == Learn

SpecLearn == InitLearn /\ [][NextLearn]_vars

\* the calls that were not overwritten: no later call has the same normalized name
LastWrites ==
    {i \in 1..Len(learn_log) :
        \A j \in (i + 1)..Len(learn_log) : Cleaned(learn_log[j][1]) # Cleaned(learn_log[i][1])}

\* the calls a later call with the same normalized name overwrote
Overwritten == (1..Len(learn_log)) \ LastWrites

\* the call that overwrote call i last
OverwriterOf(i) ==
    CHOOSE j \in LastWrites : Cleaned(learn_log[j][1]) = Cleaned(learn_log[i][1])

\* the pair (description, company) contains the normalized pair of call i
Contains(description, company, i) ==
    /\ IsSubstring(Cleaned(learn_log[i][1]), Cleaned(description))
    /\ IsSubstring(Cleaned(learn_log[i][2]), Cleaned(company))

\* one mapping per normalized name, that of the last call, and a memory score of
\* 100 exactly for the pairs that contain the normalized pair of a last call
C19_OneMappingPerKey ==
    /\ memory.associations =
          {<<Cleaned(learn_log[i][1]), Cleaned(learn_log[i][2])>> : i \in LastWrites}
    /\ \A a, b \in memory.associations : a[1] = b[1] => a = b
    /\ \A d \in MatchDescriptions, c \in LearnedCompanies :
          check_memory(memory, [description |-> d], [company_name |-> c]) = 100
              <=> \E i \in LastWrites : Contains(d, c, i)

\* C19 as stated: last write wins per normalized name, and the company of an
\* overwritten call, when another company overwrote it, gets no memory score
\* from that name any more.
C19_LastWriteWins ==
    /\ C19_OneMappingPerKey
    /\ \A i \in Overwritten : \A d \in MatchDescriptions :
          learn_log[i][2] # learn_log[OverwriterOf(i)][2]
              => ~Contains(d, learn_log[i][2], OverwriterOf(i))

\* C19 amended: last write wins per normalized name, and the company of an
\* overwritten call gets no memory score from that name any more unless its
\* cleaned name contains the normalized company of the overwriting call.
C19_LastWriteWinsUnlessContained ==
    /\ C19_OneMappingPerKey
    /\ \A i \in Overwritten : \A d \in MatchDescriptions :
          Contains(d, learn_log[i][2], OverwriterOf(i))
              => IsSubstring(Cleaned(learn_log[OverwriterOf(i)][2]), Cleaned(learn_log[i][2]))

\* "Acme" -> Globex overwritten through another spelling of the name, and
\* Globex no longer scored for a description that holds the name
C19_Witness ==
    /\ Len(learn_log) = 2
    /\ learn_log[1] = <<"Acme", "Globex">>
    /\ learn_log[2] = <<"ACME", "Terra">>
    /\ memory.associations = {<<Cleaned("ACME"), Cleaned("Terra")>>}
    /\ check_memory(memory, [description |-> "acme pmt 1003"], [company_name |-> "Globex"]) = 0
    /\ check_memory(memory, [description |-> "acme pmt 1003"], [company_name |-> "Terra W"]) = 100


\* ------------------------------------------------------------- C20
\* the invoices HubSpot holds under the id of a match
FetchedAs(m) ==
    {i \in 1..Len(match_in.fetched) : match_in.fetched[i].id = m.invoice_id}

\* the transactions of the call a match was made for
TransactionsOf(m) ==
    {j \in 1..Len(match_in.transactions) : TransactionKey(match_in.transactions[j]) = MatchKey(m)}

Pairing(m) == <<MatchKey(m), m.invoice_id, m.confidence>>

\* the pairings a run keeps when, for each eligible transaction in input
\* order, the highest confidence among the invoices not consumed and not
\* denied for it is taken (the first of equals), it counts only above floor,
\* and it is accepted at or above the threshold
RECURSIVE kept_loop(_, _, _, _, _, _, _)
kept_loop(txs, unpaid_invoices, confidence_threshold, fuzzy, floor, found, consumed) ==
    IF txs = <<>> THEN found
    ELSE TheOne(
        {LET open == {i \in 1..Len(unpaid_invoices) :
                         /\ unpaid_invoices[i].id \notin consumed
                         /\ <<transaction.description, unpaid_invoices[i].id>> \notin DeniedPairs
                         /\ conf[i] > floor}
             best == CHOOSE i \in open :
                         \A j \in open : conf[i] > conf[j] \/ (conf[i] = conf[j] /\ i <= j)
             eligible == /\ transaction.amount > 0
                         /\ transaction.is_credit
                         /\ transaction.description \notin AccountedDescriptions
         IN  IF eligible /\ open # {} /\ conf[best] >= confidence_threshold
             THEN kept_loop(Tail(txs), unpaid_invoices, confidence_threshold, fuzzy, floor,
                            Append(found, <<TransactionKey(transaction),
                                            unpaid_invoices[best].id, conf[best]>>),
                            consumed \cup {unpaid_invoices[best].id})
             ELSE kept_loop(Tail(txs), unpaid_invoices, confidence_threshold, fuzzy, floor,
                            found, consumed) :
            <<transaction, conf>> \in
                {<<t, confidences(memory, t, unpaid_invoices, fuzzy)>> : t \in {Head(txs)}}})

KeptAbove(floor) ==
    kept_loop(match_in.transactions, SelectSeq(match_in.invoices, is_unpaid),
              match_in.confidence_threshold, match_in.fuzzy, floor, <<>>, {})

Pairings == [k \in 1..Len(matches) |-> Pairing(matches[k])]

\* C21 as stated: each eligible transaction, in input order, is paired with
\* the highest-confidence invoice not consumed and not denied for it, and the
\* pair is returned if and only if its confidence is at least the threshold,
\* whatever the threshold, 0 included.
C21_BestAcceptedAtThreshold == Called => Pairings = KeptAbove(-1)

\* C21 amended: the pair is returned if and only if its confidence is above
\* 50 and at least the threshold.
C21_BestAcceptedAboveFloor == Called => Pairings = KeptAbove(5000)

\* at threshold 0 a transaction is matched and another, whose best invoice
\* scores 50 or less, is not
C21_Witness ==
    /\ Called
    /\ match_in.confidence_threshold = 0
    /\ matches # <<>>
    /\ Pairings # KeptAbove(-1)


\* ------------------------------------------------------------- C22
\* C22: the escalation_level analyze_invoice decides is in 0..5, for every
\* contact count and every configuration.
C22_LevelInRange == Decided => dec_out.escalation_level \in 0..5

\* ------------------------------------------ historical auto-accounting
\* matching_transactions.sort(key=date): stable, oldest first
RECURSIVE sort_by_date(_)
sort_by_date(txs) ==
    IF txs = <<>> THEN <<>>
    ELSE TheOne({SubSeq(rest, 1, k) \o <<Head(txs)>> \o SubSeq(rest, k + 1, Len(rest)) :
                    <<rest, k>> \in
                        {<<r, Cardinality({i \in 1..Len(r) : r[i].date < Head(txs).date})>> :
                            r \in {sort_by_date(Tail(txs))}}})

\* inv.get('payment_date') or inv.get('created_date')
paid_date(inv) == IF IsIsoDate(inv.payment_date) THEN inv.payment_date.iso ELSE inv.created_date

\* ReconciliationEngine.validate_company_payments (amounts in cents); ratio is
\* what fuzz.partial_ratio returns for the company and each description
validate_company_payments(self, company_name, paid_invoices, all_transactions, ratio) ==
    LET company_paid_invoices ==
            SelectSeq(paid_invoices, LAMBDA inv : inv.company_name = company_name)
        paid_invoices_total ==
            SumSeq([i \in 1..Len(company_paid_invoices) |-> company_paid_invoices[i].amount])
        matching ==
            SelectSeq(all_transactions, LAMBDA txn : ratio[txn.description] >= 80)
        payments_total == SumSeq([i \in 1..Len(matching) |-> Abs(matching[i].amount)])
        discrepancy == payments_total - paid_invoices_total
        \* max(paid_invoices_total * 0.01, 5.0), times 100
        tolerance100 == IF paid_invoices_total >= 50000 THEN paid_invoices_total ELSE 50000
        status == IF 100 * Abs(discrepancy) <= tolerance100 THEN "balanced"
                  ELSE IF 100 * discrepancy < 0 - tolerance100 THEN "short"
                  ELSE "over"
        matching_transactions == sort_by_date(matching)
        paid_dates == {paid_date(company_paid_invoices[i]) : i \in 1..Len(company_paid_invoices)}
        is_new(txn) ==
            /\ ~is_transaction_accounted(self, txn.description)
            /\ paid_dates # {}
            /\ \A d \in paid_dates : txn.date > d
    IN  [company_name |-> company_name,
         status |-> status,
         paid_invoices_total |-> paid_invoices_total,
         payments_total |-> payments_total,
         discrepancy |-> discrepancy,
         accounted_transactions |-> SelectSeq(matching_transactions, LAMBDA txn : ~is_new(txn)),
         new_transactions |-> SelectSeq(matching_transactions, is_new)]

\* the loop of auto_account_historical_transactions over
\* validation['accounted_transactions'], from the k-th on: the memory it leaves
\* and the suggestions it collects
RECURSIVE suggest_loop(_, _, _, _, _, _)
suggest_loop(self, txs, k, auto_approve, t, suggestions) ==
    IF k > Len(txs) THEN [memory |-> self, suggestions |-> suggestions]
    ELSE IF is_transaction_accounted(self, txs[k].description)
    THEN suggest_loop(self, txs, k + 1, auto_approve, t, suggestions)
    ELSE suggest_loop(IF auto_approve
                      THEN mark_transaction_accounted(self, txs[k].description,
                                                      txs[k].transaction_id,
                                                      Abs(txs[k].amount), t)
                      ELSE self,
                      txs, k + 1, auto_approve, t,
                      Append(suggestions, txs[k].transaction_id))

\* auto_account_historical_transactions that marks whatever it suggests
auto_account_unasked(self, validation, auto_approve, t) ==
    IF validation.status = "balanced"
    THEN TheOne({[memory |-> r.memory, approved |-> auto_approve,
                  suggestions |-> r.suggestions, count |-> Len(r.suggestions)] :
                    r \in {suggest_loop(self, validation.accounted_transactions, 1,
                                        TRUE, t, <<>>)}})
    ELSE [memory |-> self, approved |-> FALSE, suggestions |-> <<>>, count |-> 0]

\* ReconciliationEngine.auto_account_historical_transactions, from the
\* validation on: the memory it leaves and the dict it returns
auto_account_historical_transactions(self, validation, auto_approve, t) ==
    IF validation.status = "balanced"
    THEN TheOne({[memory |-> r.memory, approved |-> auto_approve,
                  suggestions |-> r.suggestions, count |-> Len(r.suggestions)] :
                    r \in {suggest_loop(self, validation.accounted_transactions, 1,
                                        auto_approve, t, <<>>)}})
    ELSE [memory |-> self, approved |-> FALSE, suggestions |-> <<>>, count |-> 0]

\* the paid invoices a caller hands over
PaidInvoicePool ==
    <<Fetched(MatchInvoicePool[1], 0, IsoDate(5)),
      Fetched(MatchInvoicePool[2], 0, Missing),
      Fetched(MatchInvoicePool[4], 0, IsoDate(11))>>

PaidInvoiceLists ==
    {[i \in 1..Len(ix) |-> PaidInvoicePool[ix[i]]] : ix \in {<<1>>, <<1, 2>>, <<3, 1>>, <<>>}}

AccountCompanies == {"Globex", "Acme LLC"}

RatioDrawn == {0, 85}

AccountDescriptions == {TransactionPool[i].description : i \in 1..Len(TransactionPool)}

\* the memory a call may find
AccountMemories ==
    {DefaultMemory,
     mark_transaction_accounted(DefaultMemory, "GLOBEX WIRE", "t1", 100000, 0),
     deny_match(learn_association(DefaultMemory, "GLOBEX", "Globex"),
                "acme pmt 1003", "inv3", 0)}

AccountCalled == account_call # NoAccountCall

\* a caller runs auto_account_historical_transactions once
AutoAccount ==
    /\ ~AccountCalled
    /\ \E company_name \in AccountCompanies, paid_invoices \in PaidInvoiceLists,
          transactions \in TransactionLists, auto_approve \in BOOLEAN,
          ratio \in [AccountDescriptions -> RatioDrawn] :
        \E validation \in {validate_company_payments(memory, company_name, paid_invoices,
                                                     transactions, ratio)} :
          \E r \in {auto_account_historical_transactions(memory, validation,
                                                         auto_approve, now)} :
            /\ memory' = r.memory
            /\ account_call' =
                [called |-> TRUE, before |-> memory, validation |-> validation,
                 auto_approve |-> auto_approve, approved |-> r.approved,
                 suggestions |-> r.suggestions, count |-> r.count]
    /\ UNCHANGED <<engine_vars, invoice_vars, message_vars, match_in, matches, denied_calls,
                   score_vars, writer_vars, defect_out, memory_call, learn_log, voice_vars,
                   analyzed>>

InitAccount ==
    /\ memory \in AccountMemories
    /\ match_in = NoCall
    /\ matches = <<>>
    /\ denied_calls = {}
    /\ IdleCase
    /\ config = DefaultConfig
    /\ IdleEngine
    /\ IdleInvoice
    /\ IdleMessage

NextAccount == AutoAccount

SpecAccount == InitAccount /\ [][NextAccount]_vars

\* C23: auto_account_historical_transactions changes the accounted list only
\* when the company is balanced and auto_approve was passed; otherwise the
\* whole memory is what it was; the denied list and the associations are
\* never touched, and what it adds are the transactions it suggests
C23_MarksOnlyWhenBalancedAndApproved ==
    AccountCalled =>
        /\ memory.denied_matches = account_call.before.denied_matches
        /\ memory.associations = account_call.before.associations
        /\ (memory.accounted_transactions # account_call.before.accounted_transactions
              => account_call.validation.status = "balanced" /\ account_call.auto_approve)
        /\ (~account_call.auto_approve \/ account_call.validation.status \in {"short", "over"}
              => memory = account_call.before)
        /\ (account_call.validation.status \in {"short", "over"}
              => account_call.suggestions = <<>>)

\* a balanced company and no approval: suggestions are returned and nothing is
\* marked
C23_Witness ==
    /\ AccountCalled
    /\ account_call.validation.status = "balanced"
    /\ ~account_call.auto_approve
    /\ account_call.suggestions # <<>>
    /\ memory = account_call.before
    /\ memory # DefaultMemory

\* C24: the list get_pending_approvals hands out is what a fresh
\* analyze_overdue_invoices over the same invoices and the current history
\* returns, also when log_communication calls, and no change of the clock,
\* lie between the last analysis run and this point
C24_PendingNeverStale ==
    analyzed.at = now =>
        get_pending_approvals = analyze_overdue_invoices(Self, invoices, now).pending_approvals

\* ------------------------------------------------- scheduled collections
MaxSent == 3
MaxScheduleDay == 7

\* the open invoices of the scheduled runs: two of one contact person, one
\* with no contact and one of a blacklisted company
SchedulePool ==
    <<InvoicePool[1],
      [id |-> "inv5", number |-> "1005", company_name |-> "Terra W", contact_name |-> "Pat Lee",
       contact_email |-> "pat@x", balance_due |-> 6000, due_date |-> -10],
      InvoicePool[3],
      InvoicePool[4]>>

ScheduleInvoiceLists ==
    {[i \in 1..Len(ix) |-> SchedulePool[ix[i]]] : ix \in {<<1, 2, 4>>, <<3, 2>>}}

ScheduleConfigs ==
    {[DefaultConfig EXCEPT !.max_autonomous_reminders = 2, !.blacklisted_contacts = {"Badco"},
                           !.vip_contacts = {"Globex"}],
     [DefaultConfig EXCEPT !.max_autonomous_reminders = 1],
     [DefaultConfig EXCEPT !.max_autonomous_reminders = 0]}

ScheduleSteps == {3, 4}

\* scheduled_klaus_collections, "Log communication for each invoice": the
\* history after the groups of autonomous_emails from the k-th on, where the
\* emails of the groups in sent were delivered
RECURSIVE log_deliveries(_, _, _, _, _)
log_deliveries(history, autonomous_emails, sent, k, t) ==
    IF k > Len(autonomous_emails) THEN history
    ELSE IF k \notin sent THEN log_deliveries(history, autonomous_emails, sent, k + 1, t)
    ELSE log_deliveries(
            history \o [i \in 1..Len(autonomous_emails[k].invoices) |->
                            [invoice_id |-> autonomous_emails[k].invoices[i].invoice_id,
                             company_name |-> autonomous_emails[k].invoices[i].company_name,
                             method |-> "email",
                             message_type |-> "reminder",
                             sent_at |-> t,
                             approved_by |-> "autonomous"]],
            autonomous_emails, sent, k + 1, t)

\* scheduled_klaus_collections: the invoices are fetched and analysed, the
\* email of every group of autonomous_emails is sent and, where the send
\* succeeded, a communication is logged for each invoice of the group
RunScheduled ==
    /\ \E invs \in ScheduleInvoiceLists :
        \E result \in {analyze_overdue_invoices(Self, invs, now)} :
          \E sent \in SUBSET (1..Len(result.autonomous_emails)) :
            /\ communication_history' =
                    log_deliveries(communication_history, result.autonomous_emails, sent, 1, now)
            /\ Len(communication_history') <= MaxSent
            /\ invoices' = invs
            /\ analysis' = result
            /\ pending_approvals' = result.pending_approvals
            /\ repeated' = (fresh /\ invs = invoices)
            /\ fresh' = (sent = {})
    /\ history_file' = communication_history'
    /\ analyzed' = [at |-> now, len |-> Len(communication_history)]
    /\ UNCHANGED <<now, config>>
    /\ UNCHANGED <<invoice_vars, message_vars, matcher_vars, score_vars, writer_vars,
                   defect_out, memory_call, learn_log, account_call, voice_vars>>

\* POST /klaus/email/send: an email sent by hand is logged for its invoice
SendManual ==
    /\ Len(communication_history) < MaxSent
    /\ \E invoice \in {SchedulePool[2]} :
        communication_history' =
            log_communication(communication_history, invoice.id, invoice.contact_name,
                              "email", "collection", now, "manual")
    /\ history_file' = communication_history'
    /\ fresh' = FALSE
    /\ UNCHANGED <<now, config, pending_approvals, invoices, analysis, repeated>>
    /\ UNCHANGED <<invoice_vars, message_vars, matcher_vars, case_vars>>

\* days pass between two calls
TickScheduled ==
    /\ \E d \in ScheduleSteps :
        /\ now + d <= MaxScheduleDay
        /\ now' = now + d
    /\ fresh' = FALSE
    /\ UNCHANGED <<config, communication_history, history_file, pending_approvals,
                   invoices, analysis, repeated>>
    /\ UNCHANGED <<invoice_vars, message_vars, matcher_vars, case_vars>>

InitSchedule ==
    /\ now = 0
    /\ config \in ScheduleConfigs
    /\ communication_history = <<>>
    /\ history_file = <<>>
    /\ pending_approvals = <<>>
    /\ invoices = <<>>
    /\ analysis = NoAnalysis
    /\ fresh = FALSE
    /\ repeated = FALSE
    /\ IdleInvoice
    /\ IdleMessage
    /\ IdleMatcher
    /\ IdleCase

NextSchedule == RunScheduled \/ SendManual \/ TickScheduled

SpecSchedule == InitSchedule /\ [][NextSchedule]_vars

\* the engine as the latest analysis run found it
SelfThen ==
    [Self EXCEPT !.communication_history = SubSeq(communication_history, 1, analyzed.len)]

\* the invoices of the latest run, each as analyze_invoice saw it
AnalysesThen == [i \in 1..Len(invoices) |-> analyze_invoice(SelfThen, invoices[i], analyzed.at)]

\* the analysed invoices that need an action and belong to the contact of action a
GroupOf(a) ==
    SelectSeq(AnalysesThen,
              LAMBDA x : x.action_required # "none" /\ contact_key(x) = contact_key(a.invoices[1]))

\* C25: in every consolidated action of a result, the invoices are exactly the
\* analysed invoices of that contact that need an action, escalation_level is
\* the maximum of their levels, requires_approval the OR of their flags,
\* oldest_days_overdue the maximum of their days_overdue, and action_required
\* is 'call' if one of them needs a call and 'email' otherwise
C25_GroupAggregates ==
    \A k \in 1..Len(AllActions(analysis)) :
        \E a \in {AllActions(analysis)[k]} : \E group \in {GroupOf(a)} :
            /\ a.invoices = group
            /\ \A i \in 1..Len(group) : group[i].escalation_level <= a.escalation_level
            /\ \E i \in 1..Len(group) : group[i].escalation_level = a.escalation_level
            /\ a.requires_approval = (\E i \in 1..Len(group) : group[i].requires_approval)
            /\ \A i \in 1..Len(group) : group[i].days_overdue <= a.oldest_days_overdue
            /\ \E i \in 1..Len(group) : group[i].days_overdue = a.oldest_days_overdue
            /\ a.action_required =
                IF \E i \in 1..Len(group) : group[i].action_required = "call"
                THEN "call" ELSE "email"

\* a group of two invoices of one contact: a first reminder by email that needs
\* no approval, and a call at level 4 that does
C25_Witness ==
    \E k \in 1..Len(analysis.pending_approvals) :
        \E a \in {analysis.pending_approvals[k]} :
            /\ Len(a.invoices) = 2
            /\ a.invoices[1].escalation_level = 1
            /\ ~a.invoices[1].requires_approval
            /\ a.invoices[2].action_required = "call"
            /\ a.escalation_level = 4
            /\ a.action_required = "call"

\* the confidence of the scored pairing had no processor been detected
WithoutProcessor ==
    calculate_confidence_smart(score_out.memory_match, score_out.amount_match,
                               score_out.name_match, score_out.date_match,
                               score_out.invoice_num_match, None)

\* C26: on every blending path, the confidence of a pairing whose transaction
\* shows a payment processor is the confidence without the processor plus 5,
\* capped at 100
C26_ProcessorAddsFive ==
    (Scored /\ score_out.processor # None) =>
        score_out.confidence =
            (IF WithoutProcessor + 500 > 10000 THEN 10000 ELSE WithoutProcessor + 500)

\* ------------------------------------------------------ voice call queue
MaxQueue == 3
MaxVoiceDay == 2

\* VOICE_DAILY_CALL_LIMIT of a process
LimitsDrawn == {1, 2}

PrioritiesDrawn == {5, 8}

\* VoiceCallQueue._save_queue
save_queue(q, calls, reset_date) ==
    [exists |-> TRUE, queue |-> q, calls_today |-> calls, last_reset_date |-> reset_date]

\* VoiceCallQueue._check_daily_reset: whether the counter is reset at date t
resets_at(t) == t > last_reset_date

\* the positions of the queued items, sorted by (-priority, added_at); the sort
\* is stable, so equal keys keep the order of the queue
RECURSIVE sorted_queued(_, _)
sorted_queued(q, left) ==
    IF left = {} THEN <<>>
    ELSE TheOne({<<i>> \o sorted_queued(q, left \ {i}) :
                    i \in {i \in left : \A j \in left \ {i} :
                              \/ q[i].priority > q[j].priority
                              \/ /\ q[i].priority = q[j].priority
                                 /\ \/ q[i].added_at < q[j].added_at
                                    \/ q[i].added_at = q[j].added_at /\ i < j}})

\* a limit test that lets one call more go out
limit_reached_after(calls, limit) == calls > limit

\* VoiceCallQueue.process_queue, "Check daily limit"
limit_reached(calls, limit) == calls >= limit

\* VoiceCallQueue.process_queue, "for call_item in queued", from the k-th item
\* on; outcomes[i] says whether make_outbound_call succeeds for item i
RECURSIVE call_loop(_, _, _, _, _, _)
call_loop(q, order, k, calls, limit, outcomes) ==
    IF k > Len(order) \/ limit_reached(calls, limit)
    THEN [queue |-> q, calls_today |-> calls]
    ELSE IF outcomes[order[k]]
    THEN call_loop([q EXCEPT ![order[k]].status = "completed"], order, k + 1,
                   calls + 1, limit, outcomes)
    ELSE call_loop([q EXCEPT ![order[k]].status = "failed"], order, k + 1,
                   calls, limit, outcomes)

VoiceUnchanged ==
    UNCHANGED <<engine_vars, invoice_vars, message_vars, matcher_vars, score_vars,
                writer_vars, defect_out, memory_call, learn_log, account_call, analyzed>>

\* VoiceCallQueue.add_to_queue
AddToQueue ==
    /\ Len(queue) < MaxQueue
    /\ \E priority \in PrioritiesDrawn :
        queue' = Append(queue, [id |-> Len(queue), priority |-> priority,
                                added_at |-> today, status |-> "queued"])
    /\ queue_file' = save_queue(queue', calls_today, last_reset_date)
    /\ UNCHANGED <<daily_limit, calls_today, last_reset_date, today, last_run>>
    /\ VoiceUnchanged

\* VoiceCallQueue.process_queue
ProcessQueue ==
    /\ \E good_time \in BOOLEAN :
        \E queued \in {{i \in 1..Len(queue) : queue[i].status = "queued"}} :
        \E outcomes \in [IF good_time THEN queued ELSE {} -> BOOLEAN] :
        \E start \in {IF resets_at(today) THEN 0 ELSE calls_today} :
          \E r \in {IF good_time
                    THEN call_loop(queue, sorted_queued(queue, queued),
                                   1, start, daily_limit, outcomes)
                    ELSE [queue |-> queue, calls_today |-> start]} :
            /\ queue' = r.queue
            /\ calls_today' = r.calls_today
            /\ last_reset_date' = IF resets_at(today) THEN today ELSE last_reset_date
            /\ queue_file' = IF resets_at(today) \/ queue' # queue
                             THEN save_queue(queue', calls_today', last_reset_date')
                             ELSE queue_file
            /\ last_run' = [ran |-> TRUE, good_time |-> good_time]
    /\ UNCHANGED <<daily_limit, today>>
    /\ VoiceUnchanged

\* VoiceCallQueue.get_queue_status
GetQueueStatus ==
    /\ resets_at(today)
    /\ calls_today' = 0
    /\ last_reset_date' = today
    /\ queue_file' = save_queue(queue, 0, today)
    /\ UNCHANGED <<daily_limit, queue, today, last_run>>
    /\ VoiceUnchanged

\* the calendar date advances
NextDay ==
    /\ today < MaxVoiceDay
    /\ today' = today + 1
    /\ UNCHANGED <<daily_limit, calls_today, last_reset_date, queue, queue_file, last_run>>
    /\ VoiceUnchanged

\* the process starts again: VoiceCallQueue.__init__ with the limit its
\* environment gives, and _load_queue
Restart ==
    /\ \E limit \in LimitsDrawn : daily_limit' = limit
    /\ IF queue_file.exists
       THEN /\ queue' = queue_file.queue
            /\ calls_today' = queue_file.calls_today
            /\ last_reset_date' = queue_file.last_reset_date
       ELSE /\ queue' = <<>>
            /\ calls_today' = 0
            /\ last_reset_date' = today
    /\ last_run' = NoRun
    /\ UNCHANGED <<queue_file, today>>
    /\ VoiceUnchanged

InitVoice ==
    /\ daily_limit \in LimitsDrawn
    /\ calls_today = 0
    /\ last_reset_date = 0
    /\ queue = <<>>
    /\ queue_file = NoFile
    /\ today = 0
    /\ last_run = NoRun
    /\ IdleEngine
    /\ config = DefaultConfig
    /\ IdleInvoice
    /\ IdleMessage
    /\ IdleMatcher
    /\ IdleScore
    /\ IdleWriters
    /\ IdleDefects
    /\ IdleMemoryCall
    /\ IdleLearn
    /\ IdleAccount
    /\ IdleAnalyzed

NextVoice == AddToQueue \/ ProcessQueue \/ GetQueueStatus \/ NextDay \/ Restart

SpecVoice == InitVoice /\ [][NextVoice]_vars

\* the calls a step completes and the items a step places a call for
Succeeded ==
    Cardinality({i \in 1..Len(queue') : queue'[i].status = "completed"})
        - Cardinality({i \in 1..Len(queue) : queue[i].status = "completed"})

Placed ==
    {i \in 1..Len(queue) : i <= Len(queue') /\ queue[i].status = "queued"
                              /\ queue'[i].status # "queued"}

\* a call is placed only while the count of the current date is below the
\* limit; the count moves by the successful calls of the step, from 0 when
\* the date has advanced past last_reset_date and from its value otherwise
CountsCalls ==
    /\ Placed # {} => (IF today > last_reset_date THEN 0 ELSE calls_today) < daily_limit
    /\ \/ calls_today' = calls_today + Succeeded
       \/ today > last_reset_date /\ calls_today' = Succeeded

\* C27 as stated: calls_today <= daily_limit in every reachable state, no call
\* is placed once calls_today has reached the limit on the current date,
\* calls_today grows only by successful calls and is reset to 0 only when the
\* date has advanced past last_reset_date
C27_WithinLimitAlways == [](calls_today <= daily_limit) /\ [][CountsCalls]_vars

\* C27 amended: every step that changes calls_today leaves it within the
\* limit, so the count exceeds the limit only when the queue is constructed
\* again with a limit below the count it loads; the rest as stated
C27_CountedWithinLimit ==
    [][CountsCalls /\ (calls_today' # calls_today => calls_today' <= daily_limit')]_vars

\* the count loaded is above the limit of the new process, and process_queue,
\* run at a good time with an item queued, has placed no call
C27_Witness ==
    /\ calls_today > daily_limit
    /\ last_run = [ran |-> TRUE, good_time |-> TRUE]
    /\ \E i \in 1..Len(queue) : queue[i].status = "queued"
    /\ last_reset_date = today

\* the invoices inside the actions of autonomous_emails and autonomous_calls
AutonomousInvoices ==
    UNION {Range(a.invoices) : a \in AutonomousActions}

\* what C28 asks of an autonomous invoice besides its contact count
NeedsNoHuman(inv) ==
    /\ inv.action_required = "email"
    /\ ~inv.requires_approval
    /\ inv.days_overdue < CriticalDays
    /\ inv.company_name \notin config.blacklisted_contacts

\* C28 as stated: every invoice inside an autonomous action has action
\* 'email', no approval flag, fewer than 60 days overdue, a contact_count
\* below max_autonomous_reminders and a company that is not blacklisted, and
\* autonomous_calls is empty
C28_AutonomousBelowLimit ==
    /\ \A inv \in AutonomousInvoices :
        NeedsNoHuman(inv) /\ inv.contact_count < config.max_autonomous_reminders
    /\ analysis.autonomous_calls = <<>>

\* C28 amended: the contact_count of an autonomous invoice is below
\* max_autonomous_reminders or 0, the first reminder going out whatever the
\* limit; the rest as stated
C28_AutonomousBelowLimitOrFirst ==
    /\ \A inv \in AutonomousInvoices :
        /\ NeedsNoHuman(inv)
        /\ inv.contact_count < config.max_autonomous_reminders \/ inv.contact_count = 0
    /\ analysis.autonomous_calls = <<>>

\* a first reminder that is autonomous under a limit of 0
C28_Witness ==
    /\ config.max_autonomous_reminders = 0
    /\ \E inv \in AutonomousInvoices : inv.contact_count = 0 /\ inv.escalation_level = 1

\* the records of the history as the latest run found it that were logged by a
\* scheduled run less than days_between_reminders days before that run
RecentDeliveries ==
    {k \in 1..analyzed.len :
        /\ communication_history[k].approved_by = "autonomous"
        /\ analyzed.at - communication_history[k].sent_at < config.days_between_reminders}

\* C29: a run of analyze_overdue_invoices made less than
\* days_between_reminders days after a scheduled run logged the delivery of
\* an invoice places that invoice in no action of autonomous_emails or
\* autonomous_calls
C29_NoDoubleSending ==
    \A k \in RecentDeliveries :
        \A inv \in AutonomousInvoices : inv.invoice_id # communication_history[k].invoice_id

\* a run three to six days after the delivery for inv5 was logged, over
\* invoices that include inv5, with another invoice emailed autonomously
C29_Witness ==
    /\ \E k \in RecentDeliveries :
        /\ communication_history[k].invoice_id = "inv5"
        /\ analyzed.at > communication_history[k].sent_at
    /\ \E i \in 1..Len(invoices) : invoices[i].id = "inv5"
    /\ AutonomousInvoices # {}

\* the communications logged for an invoice with approved_by 'autonomous'
AutonomousCount(invoice_id) ==
    Cardinality({k \in 1..Len(communication_history) :
                    /\ communication_history[k].invoice_id = invoice_id
                    /\ communication_history[k].approved_by = "autonomous"})

ScheduleIds == {SchedulePool[i].id : i \in 1..Len(SchedulePool)}

====
